---- MODULE Spec2Model ----
(***************************************************************************)
(* A model of parts of the noodles library suite:                          *)
(*   - noodles-csi: the coordinate-sorted index query                      *)
(*     (Index::query, ReferenceSequence::query, resolve_interval,          *)
(*      ReferenceSequence::max_position, reg2bins) and the start position  *)
(*     of the first record in the last linear bin;                         *)
(*   - noodles-bam: the record writer (write_record) and the header and    *)
(*     reference sequences of the async writer;                            *)
(*   - noodles-bcf: the async record reader (read_record);                 *)
(*   - noodles-cram: the async container reader (read_container), the      *)
(*     iterator over the features of a record (WithPositions), the end of  *)
(*     the alignment of a slice header and the tag encoding map writer;    *)
(*   - noodles-sam: the writers of the CIGAR and of a data field value of  *)
(*     a record (write_cigar, write_value).                                *)
(* Positions are 1-based (noodles_core::Position wraps a non-zero usize).  *)
(* Fallible operations return a record whose kind is "ok", "err" (an       *)
(* io::Error, with its ErrorKind in error) or "panic".                     *)
(***************************************************************************)
EXTENDS Integers, Sequences, FiniteSets, TLC

VARIABLES
    min_shift,            \* Index.min_shift
    depth,                \* Index.depth
    reference_sequences,  \* Index.reference_sequences
    csiOut,               \* the last Index::query call: its inputs and what it produced
    record,               \* the bam::Record handed to write_record
    buf,                  \* the bytes the writer has received
    bamOut,               \* the last write_record call: its result
    header,               \* the sam::Header handed to the async BAM writer
    hbuf,                 \* the bytes the async BAM writer has received
    hlog,                 \* the calls on the async BAM writer that ended, in order
    hcall,                \* the call suspended on the async BAM writer
    stream,               \* the bytes of the BCF reader's input
    bcfPos,               \* the number of bytes the BCF reader has consumed
    bcfBuf,               \* the caller's buffer of the shared (site) bytes
    bcfRecord,            \* the caller's bcf::Record
    bcfResults,           \* how the read_record calls ended, in order
    bcfCall,              \* the read_record call that is suspended
    cramStream,           \* the bytes of the CRAM reader's input
    cramPos,              \* the number of bytes the CRAM reader has consumed
    cramBuf,              \* the caller's BytesMut buffer
    cramResults,          \* how the read_container calls ended, in order
    cramCall,             \* the read_container call that is suspended
    iter,                 \* WithPositions.iter: the features, and how many were taken
    alignment_start,      \* the alignment start WithPositions::new was given
    reference_position,   \* WithPositions.reference_position
    read_position,        \* WithPositions.read_position
    yields,               \* what the calls of WithPositions::next returned, in order
    slice_header,         \* the cram slice Header: its alignment start and span
    slice_end,            \* the last Header::alignment_end call and what it returned
    lin_reference_sequence, \* the csi ReferenceSequence asked for its last linear bin
    lin_out,              \* the last first_record_in_last_linear_bin_start_position call
    tag_encoding_map,     \* the TagEncodingMap handed to write_tag_encoding_map
    tag_writer,           \* the bytes the destination writer has received
    tag_out,              \* the last write_tag_encoding_map call: its result
    sam_cigar,            \* the sam Cigar handed to write_cigar
    sam_cigar_out,        \* the last write_cigar call: the bytes the writer received
    sam_value,            \* the sam data field Value handed to write_value
    sam_value_out         \* the last write_value call: the bytes the writer received

csiVars == <<min_shift, depth, reference_sequences, csiOut>>
bamVars == <<record, buf, bamOut>>
hdrVars == <<header, hbuf, hlog, hcall>>
bcfVars == <<stream, bcfPos, bcfBuf, bcfRecord, bcfResults, bcfCall>>
cramVars == <<cramStream, cramPos, cramBuf, cramResults, cramCall>>
wpVars == <<iter, alignment_start, reference_position, read_position, yields>>
sliceVars == <<slice_header, slice_end>>
linVars == <<lin_reference_sequence, lin_out>>
tagVars == <<tag_encoding_map, tag_writer, tag_out>>
cigVars == <<sam_cigar, sam_cigar_out>>
valVars == <<sam_value, sam_value_out>>
vars == <<min_shift, depth, reference_sequences, csiOut, record, buf, bamOut,
          header, hbuf, hlog, hcall, stream, bcfPos, bcfBuf, bcfRecord, bcfResults,
          bcfCall,
          cramStream, cramPos, cramBuf, cramResults, cramCall,
          iter, alignment_start, reference_position, read_position, yields,
          slice_header, slice_end,
          lin_reference_sequence, lin_out,
          tag_encoding_map, tag_writer, tag_out,
          sam_cigar, sam_cigar_out,
          sam_value, sam_value_out>>

\* the variables of the other components, which an operation leaves alone
exceptCsi ==
    <<bamVars, hdrVars, bcfVars, cramVars, wpVars, sliceVars, linVars,
      tagVars, cigVars, valVars>>
exceptBam ==
    <<csiVars, hdrVars, bcfVars, cramVars, wpVars, sliceVars, linVars,
      tagVars, cigVars, valVars>>
exceptHdr ==
    <<csiVars, bamVars, bcfVars, cramVars, wpVars, sliceVars, linVars,
      tagVars, cigVars, valVars>>
exceptBcf ==
    <<csiVars, bamVars, hdrVars, cramVars, wpVars, sliceVars, linVars,
      tagVars, cigVars, valVars>>
exceptCram ==
    <<csiVars, bamVars, hdrVars, bcfVars, wpVars, sliceVars, linVars,
      tagVars, cigVars, valVars>>
exceptWp ==
    <<csiVars, bamVars, hdrVars, bcfVars, cramVars, sliceVars, linVars,
      tagVars, cigVars, valVars>>
exceptSlice ==
    <<csiVars, bamVars, hdrVars, bcfVars, cramVars, wpVars, linVars,
      tagVars, cigVars, valVars>>
exceptLin ==
    <<csiVars, bamVars, hdrVars, bcfVars, cramVars, wpVars, sliceVars,
      tagVars, cigVars, valVars>>
exceptTag ==
    <<csiVars, bamVars, hdrVars, bcfVars, cramVars, wpVars, sliceVars,
      linVars, cigVars, valVars>>
exceptCig ==
    <<csiVars, bamVars, hdrVars, bcfVars, cramVars, wpVars, sliceVars,
      linVars, tagVars, valVars>>
exceptVal ==
    <<csiVars, bamVars, hdrVars, bcfVars, cramVars, wpVars, sliceVars,
      linVars, tagVars, cigVars>>

(***************************************************************************)
(* Bounds of the model.                                                    *)
(***************************************************************************)
\* query positions 1..MaxQueryPos are enumerated exhaustively
MaxQueryPos == 17
\* reference sequence ids 0..MaxRefId are tried by Index::query
MaxRefId == 1

(***************************************************************************)
(* Integer helpers: shifts as the machine computes them on values that fit *)
(* the word (all shift counts in the model are below the word size).       *)
(***************************************************************************)
RECURSIVE Shl(_, _)
Shl(x, k) == IF k = 0 THEN x ELSE Shl(x + x, k - 1)

RECURSIVE Shr(_, _)
Shr(x, k) == IF k = 0 THEN x ELSE Shr(x \div 2, k - 1)

Ok(v) == [kind |-> "ok", value |-> v, error |-> "none"]
Err(e) == [kind |-> "err", value |-> 0, error |-> e]
Panic == [kind |-> "panic", value |-> 0, error |-> "none"]

(***************************************************************************)
(* noodles_core::Position::try_from(usize): zero is not a position.        *)
(***************************************************************************)
PositionTryFrom(n) == IF n = 0 THEN Err("InvalidInput") ELSE Ok(n)

\* Position::MIN
PositionMIN == 1

(***************************************************************************)
(* ReferenceSequence::max_position                                         *)
(***************************************************************************)
max_position_off_by_one(ms, d) ==
    IF ~(ms > 0) THEN Panic
    ELSE PositionTryFrom(Shl(1, ms + 3 * d))

max_position(ms, d) ==
    IF ~(ms > 0) THEN Panic
    ELSE LET n == Shl(1, ms + 3 * d) - 1
         IN PositionTryFrom(n)

(***************************************************************************)
(* Bin::max_id(depth): the length of the candidate bit set. The bin tree   *)
(* of depth d has bins 0 .. max_id(d) - 1; max_id(5) = 37449, and the      *)
(* metadata pseudo-bin is max_id + 1 (37450 for BAI).                      *)
(***************************************************************************)
max_id(d) == Shl(1, (d + 1) * 3) \div 7

(***************************************************************************)
(* Interval bounds (std::ops::Bound<Position>).                            *)
(***************************************************************************)
Included(p) == [kind |-> "Included", p |-> p]
Excluded(p) == [kind |-> "Excluded", p |-> p]
Unbounded == [kind |-> "Unbounded", p |-> 0]

(***************************************************************************)
(* resolve_interval: the closed 1-based (start, end) of a range, or an     *)
(* error. The steps are in source order: start, max_position (with ?),     *)
(* the start check, end (with ?), the end check.                           *)
(***************************************************************************)
ResolveStart(sb) ==
    CASE sb.kind = "Included" -> sb.p
      [] sb.kind = "Excluded" -> sb.p + 1
      [] OTHER -> PositionMIN

ResolveEnd(eb, maxp) ==
    CASE eb.kind = "Included" -> Ok(eb.p)
      [] eb.kind = "Excluded" -> PositionTryFrom(eb.p - 1)
      [] OTHER -> Ok(maxp)

IntervalOk(s, e) == [kind |-> "ok", start |-> s, end |-> e, error |-> "none"]
IntervalFail(k, e) == [kind |-> k, start |-> 0, end |-> 0, error |-> e]

resolve_interval_no_end_check(ms, d, sb, eb) ==
    LET start == ResolveStart(sb)
        mp == max_position(ms, d)
    IN IF mp.kind # "ok" THEN IntervalFail(mp.kind, mp.error)
       ELSE IF start > mp.value THEN IntervalFail("err", "InvalidInput")
       ELSE LET end == ResolveEnd(eb, mp.value)
            IN IF end.kind # "ok" THEN IntervalFail(end.kind, end.error)
               ELSE IntervalOk(start, end.value)

resolve_interval_wrapping_end(ms, d, sb, eb) ==
    LET start == ResolveStart(sb)
        mp == max_position(ms, d)
    IN IF mp.kind # "ok" THEN IntervalFail(mp.kind, mp.error)
       ELSE IF start > mp.value THEN IntervalFail("err", "InvalidInput")
       ELSE LET end == IF eb.kind = "Excluded" THEN Ok(eb.p - 1) ELSE ResolveEnd(eb, mp.value)
            IN IF end.value > mp.value THEN IntervalFail("err", "InvalidInput")
               ELSE IntervalOk(start, end.value)

resolve_interval(ms, d, sb, eb) ==
    LET start == ResolveStart(sb)
        mp == max_position(ms, d)
    IN IF mp.kind # "ok" THEN IntervalFail(mp.kind, mp.error)
       ELSE IF start > mp.value THEN IntervalFail("err", "InvalidInput")
       ELSE LET end == ResolveEnd(eb, mp.value)
            IN IF end.kind # "ok" THEN IntervalFail(end.kind, end.error)
               ELSE IF end.value > mp.value THEN IntervalFail("err", "InvalidInput")
               ELSE IntervalOk(start, end.value)

(***************************************************************************)
(* reg2bins: the loop over the levels l = 0 ..= depth, with the running    *)
(* offset t and shift s; each level sets the bits b ..= e. The loop is     *)
(* kept as the sequence of the (b, e) it ranges over. BitVec::set panics   *)
(* on an index that is not below the bit set's length nbits; the result is *)
(* the set of the bits that are set.                                       *)
(***************************************************************************)
RECURSIVE reg2binsLoop(_, _, _, _, _, _, _)
reg2binsLoop(beg, end, l, t, s, d, marks) ==
    IF ~(l <= d) THEN marks
    ELSE LET b == t + Shr(beg, s)
             e == t + Shr(end, s)
         IN reg2binsLoop(beg, end, l + 1, t + Shl(1, l * 3), s - 3, d,
                         Append(marks, [b |-> b, e |-> e]))

BitsSet(marks, nbits) ==
    {i \in 0..(nbits - 1) : \E k \in 1..Len(marks) : marks[k].b <= i /\ i <= marks[k].e}

reg2bins_fixed_offset(start, end, ms, d, nbits) ==
    LET marks == [l \in 1..(d + 1) |->
                    [b |-> 8 * (l - 1) + Shr(start - 1, ms + 3 * (d - l + 1)),
                     e |-> 8 * (l - 1) + Shr(end - 1, ms + 3 * (d - l + 1))]]
    IN IF \E k \in 1..Len(marks) : marks[k].b <= marks[k].e /\ marks[k].e >= nbits
       THEN [kind |-> "panic", bits |-> {}]
       ELSE [kind |-> "ok", bits |-> BitsSet(marks, nbits)]

reg2bins_half_open(start, end, ms, d, nbits) ==
    LET marks == reg2binsLoop(start - 1, end - 2, 0, 0, ms + d * 3, d, <<>>)
    IN IF \E k \in 1..Len(marks) : marks[k].b <= marks[k].e /\ marks[k].e >= nbits
       THEN [kind |-> "panic", bits |-> {}]
       ELSE [kind |-> "ok", bits |-> BitsSet(marks, nbits)]

reg2bins(start, end, ms, d, nbits) ==
    LET marks == reg2binsLoop(start - 1, end - 1, 0, 0, ms + d * 3, d, <<>>)
    IN IF \E k \in 1..Len(marks) : marks[k].b <= marks[k].e /\ marks[k].e >= nbits
       THEN [kind |-> "panic", bits |-> {}]
       ELSE [kind |-> "ok", bits |-> BitsSet(marks, nbits)]

(***************************************************************************)
(* The index data model: a bin has an id, a loffset and chunks; a chunk is *)
(* a pair of virtual positions; a reference sequence has a bin list and    *)
(* optional metadata (kept apart from the bin list).                       *)
(***************************************************************************)
Chunk(b, e) == [chunk_beg |-> b, chunk_end |-> e]
Bin(id, loffset, chunks) == [id |-> id, loffset |-> loffset, chunks |-> chunks]
Metadata(rb, re, m, u) ==
    [ref_beg |-> rb, ref_end |-> re, mapped |-> m, unmapped |-> u]
\* ReferenceSequence::new; metadata is a sequence of length 0 (None) or 1 (Some)
ReferenceSequenceNew(bins, metadata) == [bins |-> bins, metadata |-> metadata]

RECURSIVE FlatMapChunks(_)
FlatMapChunks(bins) ==
    IF bins = <<>> THEN <<>> ELSE Head(bins).chunks \o FlatMapChunks(Tail(bins))

RECURSIVE FilterBins(_, _)
FilterBins(bins, bits) ==
    IF bins = <<>> THEN <<>>
    ELSE IF Head(bins).id \in bits
         THEN <<Head(bins)>> \o FilterBins(Tail(bins), bits)
         ELSE FilterBins(Tail(bins), bits)

QueryFail(k, e, iv) ==
    [kind |-> k, error |-> e, start |-> iv.start, end |-> iv.end,
     region_bins |-> {}, query_bins |-> <<>>]

(***************************************************************************)
(* ReferenceSequence::query: resolve the interval, mark the candidate bins *)
(* in a bit set of max_id(depth) bits, and keep the stored bins whose bit  *)
(* is set, in stored order. Indexing the bit set with a stored id that is  *)
(* not below its length panics.                                            *)
(***************************************************************************)
reference_sequence_query_leaf_only(rs, ms, d, sb, eb) ==
    LET iv == resolve_interval(ms, d, sb, eb)
    IN IF iv.kind # "ok" THEN QueryFail(iv.kind, iv.error, iv)
       ELSE LET max_bin_id == max_id(d)
                region_bins == reg2bins(iv.start, iv.end, ms, d, max_bin_id)
            IN IF region_bins.kind # "ok" THEN QueryFail("panic", "none", iv)
               ELSE IF \E i \in 1..Len(rs.bins) : rs.bins[i].id >= max_bin_id
               THEN QueryFail("panic", "none", iv)
               ELSE [kind |-> "ok", error |-> "none", start |-> iv.start, end |-> iv.end,
                     region_bins |-> region_bins.bits,
                     query_bins |-> FilterBins(rs.bins,
                        {i \in region_bins.bits : i >= max_id(d - 1)})]

reference_sequence_query(rs, ms, d, sb, eb) ==
    LET iv == resolve_interval(ms, d, sb, eb)
    IN IF iv.kind # "ok" THEN QueryFail(iv.kind, iv.error, iv)
       ELSE LET max_bin_id == max_id(d)
                region_bins == reg2bins(iv.start, iv.end, ms, d, max_bin_id)
            IN IF region_bins.kind # "ok" THEN QueryFail("panic", "none", iv)
               ELSE IF \E i \in 1..Len(rs.bins) : rs.bins[i].id >= max_bin_id
               THEN QueryFail("panic", "none", iv)
               ELSE [kind |-> "ok", error |-> "none", start |-> iv.start, end |-> iv.end,
                     region_bins |-> region_bins.bits,
                     query_bins |-> FilterBins(rs.bins, region_bins.bits)]

(***************************************************************************)
(* Index::query: look the reference sequence up, query its bins, and       *)
(* collect the chunks of the bins found, in order.                         *)
(***************************************************************************)
index_query(refs, ms, d, rid, sb, eb) ==
    IF ~(rid + 1 \in 1..Len(refs))
    THEN [kind |-> "err", error |-> "InvalidInput", start |-> 0, end |-> 0,
          region_bins |-> {}, query_bins |-> <<>>, chunks |-> <<>>]
    ELSE LET q == reference_sequence_query(refs[rid + 1], ms, d, sb, eb)
         IN [kind |-> q.kind,
             error |-> IF q.kind = "err" THEN "InvalidInput" ELSE q.error,
             start |-> q.start, end |-> q.end,
             region_bins |-> q.region_bins, query_bins |-> q.query_bins,
             chunks |-> FlatMapChunks(q.query_bins)]

(***************************************************************************)
(* Inputs: the index parameters, the index contents and the query bounds.  *)
(***************************************************************************)
\* (min_shift, depth): the parameters of test_reg2bins, two small trees, the
\* defaults (14, 5), and min_shift = 0, which max_position's assertion rejects
ParamSet == {<<4, 2>>, <<1, 1>>, <<2, 0>>, <<14, 5>>, <<0, 1>>}

I32Max == 2147483647

RefA == ReferenceSequenceNew(
    <<Bin(0, 8, <<Chunk(20, 30)>>), Bin(1, 13, <<Chunk(5, 10), Chunk(10, 15)>>)>>, <<>>)
RefB == ReferenceSequenceNew(
    <<Bin(9, 3, <<Chunk(40, 50)>>), Bin(1, 2, <<Chunk(45, 60), Chunk(2, 4)>>),
      Bin(2, 7, <<Chunk(7, 9)>>)>>,
    <<Metadata(610, 1597, 55, 0)>>)
RefC == ReferenceSequenceNew(
    <<Bin(12, 1, <<Chunk(1, 2)>>), Bin(17, 5, <<Chunk(5, 6)>>), Bin(0, 9, <<Chunk(9, 12)>>)>>,
    <<>>)
RefEmpty == ReferenceSequenceNew(<<>>, <<>>)

IndexSet == {<<>>, <<RefA>>, <<RefB, RefEmpty>>, <<RefC, RefA>>}

ExamplePositions == {1, 9, 13, 16, 36, 49, 67, 143}

MaxPositionValue(ms, d) == Shl(1, ms + 3 * d) - 1

\* a small tree has every position 1..MaxQueryPos, the examples of test_reg2bins
\* and the positions around the maximum
Positions(ms, d) ==
    (1..MaxQueryPos) \cup ExamplePositions
        \cup {MaxPositionValue(ms, d), MaxPositionValue(ms, d) + 1}

SmallTree(ms, d) == ms + 3 * d <= 10

\* a large tree (37449 bins for the defaults) has the bounds of the doc example
\* (8, 13), of test_query (i32::MAX) and those around the maximum
StartBounds(ms, d) ==
    IF SmallTree(ms, d)
    THEN {Unbounded} \cup {Included(p) : p \in Positions(ms, d)}
                     \cup {Excluded(p) : p \in Positions(ms, d)}
    ELSE {Unbounded, Included(8), Included(MaxPositionValue(ms, d) + 1),
          Excluded(MaxPositionValue(ms, d))}

EndBounds(ms, d) ==
    IF SmallTree(ms, d)
    THEN {Unbounded} \cup {Included(p) : p \in Positions(ms, d)}
                     \cup {Excluded(p) : p \in Positions(ms, d)}
    ELSE {Unbounded, Included(13), Excluded(1), Included(MaxPositionValue(ms, d)),
          Included(MaxPositionValue(ms, d) + 1), Included(I32Max)}

NoCall ==
    [called |-> FALSE, rid |-> 0, sb |-> Unbounded, eb |-> Unbounded,
     kind |-> "none", error |-> "none", start |-> 0, end |-> 0,
     region_bins |-> {}, query_bins |-> <<>>, chunks |-> <<>>]

InitCsiState ==
    /\ \E p \in ParamSet : min_shift = p[1] /\ depth = p[2]
    /\ reference_sequences \in IndexSet
    /\ csiOut = NoCall

(***************************************************************************)
(* The action of a caller of Index::query. A query leaves the index as it  *)
(* is, so one call a behaviour shows all there is to see.                  *)
(***************************************************************************)
IndexQuery ==
    /\ ~csiOut.called
    /\ \E rid \in 0..MaxRefId, sb \in StartBounds(min_shift, depth),
       eb \in EndBounds(min_shift, depth) :
        LET r == index_query(reference_sequences, min_shift, depth, rid, sb, eb)
        IN csiOut' = [called |-> TRUE, rid |-> rid, sb |-> sb, eb |-> eb,
                         kind |-> r.kind, error |-> r.error,
                         start |-> r.start, end |-> r.end,
                         region_bins |-> r.region_bins, query_bins |-> r.query_bins,
                         chunks |-> r.chunks]
    /\ UNCHANGED <<min_shift, depth, reference_sequences>>
    /\ UNCHANGED exceptCsi


(***************************************************************************)
(* noodles-bam: the record and its writer.                                 *)
(* Bytes are integers 0..255; the writer is the sequence of bytes written. *)
(***************************************************************************)
\* the most bases, quality scores and CIGAR operations a model record holds
MaxBases == 5
MaxScores == 5
MaxCigarOps == 2

\* byteorder's little-endian writers, on values that fit the field
U8(n) == <<n % 256>>
U16LE(n) == <<n % 256, (n \div 256) % 256>>
U32LE(n) == <<n % 256, (n \div 256) % 256, (n \div 65536) % 256, (n \div 16777216) % 256>>
\* two's complement: % and \div round towards minus infinity
I32LE(n) == <<n % 256, (n \div 256) % 256, (n \div 65536) % 256, (n \div 16777216) % 256>>

\* § 4.2.3 SEQ and QUAL encoding
NULL_QUALITY_SCORE == 255

\* Record::default(), as test_write_record_with_default_fields reads it back
DefaultRecord ==
    [ref_id |-> -1, pos |-> -1, read_name |-> <<42, 0>>, mapping_quality |-> 255,
     bin |-> 4680, cigar |-> <<>>, flags |-> 4,
     sequence |-> [buf |-> <<>>, base_count |-> 0],
     next_ref_id |-> -1, next_pos |-> -1, template_length |-> 0,
     quality_scores |-> <<>>, data |-> <<>>]

\* the fixed-width fields a caller sets: the defaults, those of
\* test_write_record_with_all_fields, and a set of multi-byte and negative values
FieldProfiles ==
    {[ref_id |-> -1, pos |-> -1, mapping_quality |-> 255, bin |-> 4680, flags |-> 4,
      next_ref_id |-> -1, next_pos |-> -1, template_length |-> 0],
     [ref_id |-> 1, pos |-> 8, mapping_quality |-> 13, bin |-> 6765, flags |-> 65,
      next_ref_id |-> 1, next_pos |-> 21, template_length |-> 144],
     [ref_id |-> 2, pos |-> 70000, mapping_quality |-> 0, bin |-> 65535, flags |-> 1040,
      next_ref_id |-> 3, next_pos |-> 16777221, template_length |-> -144]}

\* the widest values of the u8 l_read_name and the u16 n_cigar_op
U8Max == 255
U16Max == 65535

\* a read name of U8Max characters and its NUL: one byte more than l_read_name holds
LongReadName == [i \in 1..(U8Max + 1) |-> IF i = U8Max + 1 THEN 0 ELSE 114]

\* read names, NUL-terminated as the record keeps them: "*", "r0", and the long one
ReadNames == {<<42, 0>>, <<114, 48, 0>>, LongReadName}

\* raw CIGAR operations (len << 4 | code): 3M, 1S, 2D, 1I
CigarOps == {48, 20, 34, 17}

\* a CIGAR of U16Max + 1 deletions (2D): one operation more than n_cigar_op holds,
\* and a read length of 0
LongCigar == [i \in 1..(U16Max + 1) |-> 34]

\* the bases pushed, in order (A, C, G, T as 4-bit codes), and the scores (N, D, L, S)
BaseStream == <<1, 2, 4, 8>>
ScoreStream == <<45, 35, 43, 50>>

\* data field NH:C:1
DataField == <<78, 72, 67, 1>>

\* Sequence::push: two bases a byte, the high nibble first
SequencePush(seq, b) ==
    IF seq.base_count % 2 = 0
    THEN [buf |-> Append(seq.buf, b * 16), base_count |-> seq.base_count + 1]
    ELSE [buf |-> [seq.buf EXCEPT ![Len(seq.buf)] = @ + b],
          base_count |-> seq.base_count + 1]

\* the read length a CIGAR consumes: the lengths of its M, I, S, = and X operations
\* (summed by halves, which keeps the recursion shallow on a long CIGAR)
RECURSIVE CigarReadLenIn(_, _, _)
CigarReadLenIn(cigar, lo, hi) ==
    IF lo > hi THEN 0
    ELSE IF lo = hi
         THEN (IF (cigar[lo] % 16) \in {0, 1, 4, 7, 8} THEN cigar[lo] \div 16 ELSE 0)
         ELSE CigarReadLenIn(cigar, lo, (lo + hi) \div 2)
              + CigarReadLenIn(cigar, (lo + hi) \div 2 + 1, hi)

CigarReadLen(cigar) == CigarReadLenIn(cigar, 1, Len(cigar))

(***************************************************************************)
(* validate(record): the read name is at most 254 bytes plus its NUL, the  *)
(* sequence length is the read length of a non-empty CIGAR, and there are  *)
(* no quality scores or one per base.                                      *)
(***************************************************************************)
validate(rec) ==
    /\ Len(rec.read_name) <= U8Max
    /\ (rec.cigar # <<>> => rec.sequence.base_count = CigarReadLen(rec.cigar))
    /\ (Len(rec.quality_scores) = 0 \/ Len(rec.quality_scores) = rec.sequence.base_count)

(***************************************************************************)
(* Record::block_size: the size of the record after its block_size field:  *)
(* 32 bytes of fixed fields, the read name, 4 bytes a CIGAR operation, the *)
(* packed sequence, l_seq quality scores and the data.                     *)
(***************************************************************************)
block_size(rec) ==
    32 + Len(rec.read_name) + 4 * Len(rec.cigar) + Len(rec.sequence.buf)
       + rec.sequence.base_count + Len(rec.data)

RECURSIVE WriteCigar(_)
WriteCigar(cigar) ==
    IF cigar = <<>> THEN <<>> ELSE U32LE(Head(cigar)) \o WriteCigar(Tail(cigar))

QualityBytes_no_filler(rec, l_seq) == rec.quality_scores

QualityBytes_zero_filler(rec, l_seq) ==
    IF rec.quality_scores = <<>>
    THEN [i \in 1..l_seq |-> 0]
    ELSE rec.quality_scores

QualityBytes(rec, l_seq) ==
    IF rec.quality_scores = <<>>
    THEN [i \in 1..l_seq |-> NULL_QUALITY_SCORE]
    ELSE rec.quality_scores

WriteOk(bytes) == [kind |-> "ok", error |-> "none", bytes |-> bytes]
WriteErr(e, bytes) == [kind |-> "err", error |-> e, bytes |-> bytes]

(***************************************************************************)
(* write_record: what it returns and the bytes it has written by then. A   *)
(* failed conversion returns with the bytes of the earlier fields written. *)
(***************************************************************************)
write_record_swapped(rec) ==
    IF ~validate(rec) THEN WriteErr("InvalidInput", <<>>)
    ELSE WriteOk(U32LE(block_size(rec)) \o I32LE(rec.ref_id) \o I32LE(rec.pos)
            \o U8(rec.mapping_quality) \o U8(Len(rec.read_name))
            \o U16LE(rec.bin) \o U16LE(Len(rec.cigar)) \o U16LE(rec.flags)
            \o U32LE(rec.sequence.base_count)
            \o I32LE(rec.next_ref_id) \o I32LE(rec.next_pos) \o I32LE(rec.template_length)
            \o rec.read_name \o WriteCigar(rec.cigar) \o rec.sequence.buf
            \o QualityBytes(rec, rec.sequence.base_count) \o rec.data)

write_record_no_validate(rec) ==
    LET w1 == U32LE(block_size(rec)) \o I32LE(rec.ref_id) \o I32LE(rec.pos)
    IN IF Len(rec.read_name) > U8Max THEN WriteErr("InvalidInput", w1)
       ELSE LET w2 == w1 \o U8(Len(rec.read_name)) \o U8(rec.mapping_quality)
                         \o U16LE(rec.bin)
            IN IF Len(rec.cigar) > U16Max THEN WriteErr("InvalidInput", w2)
               ELSE LET l_seq == rec.sequence.base_count
                    IN WriteOk(w2 \o U16LE(Len(rec.cigar)) \o U16LE(rec.flags)
                           \o U32LE(l_seq)
                           \o I32LE(rec.next_ref_id) \o I32LE(rec.next_pos)
                           \o I32LE(rec.template_length)
                           \o rec.read_name \o WriteCigar(rec.cigar)
                           \o rec.sequence.buf
                           \o QualityBytes(rec, l_seq) \o rec.data)

write_record(rec) ==
    IF ~validate(rec) THEN WriteErr("InvalidInput", <<>>)
    ELSE LET w1 == U32LE(block_size(rec)) \o I32LE(rec.ref_id) \o I32LE(rec.pos)
         IN IF Len(rec.read_name) > U8Max THEN WriteErr("InvalidInput", w1)
            ELSE LET w2 == w1 \o U8(Len(rec.read_name)) \o U8(rec.mapping_quality)
                              \o U16LE(rec.bin)
                 IN IF Len(rec.cigar) > U16Max THEN WriteErr("InvalidInput", w2)
                    ELSE LET l_seq == rec.sequence.base_count
                         IN WriteOk(w2 \o U16LE(Len(rec.cigar)) \o U16LE(rec.flags)
                                \o U32LE(l_seq)
                                \o I32LE(rec.next_ref_id) \o I32LE(rec.next_pos)
                                \o I32LE(rec.template_length)
                                \o rec.read_name \o WriteCigar(rec.cigar)
                                \o rec.sequence.buf
                                \o QualityBytes(rec, l_seq) \o rec.data)

NoWrite == [called |-> FALSE, kind |-> "none", error |-> "none"]

InitBamState ==
    /\ record = DefaultRecord
    /\ buf = <<>>
    /\ bamOut = NoWrite

\* a caller's change of the record starts over with a new, empty writer
NewWriter == buf' = <<>> /\ bamOut' = NoWrite /\ UNCHANGED exceptBam

\* the caller changes a record until its CIGAR is the long one
Changeable == Len(record.cigar) <= MaxCigarOps

SetFields ==
    \E f \in FieldProfiles :
        /\ Changeable
        /\ record' = [record EXCEPT !.ref_id = f.ref_id, !.pos = f.pos,
                         !.mapping_quality = f.mapping_quality, !.bin = f.bin,
                         !.flags = f.flags, !.next_ref_id = f.next_ref_id,
                         !.next_pos = f.next_pos, !.template_length = f.template_length]
        /\ NewWriter

SetReadName ==
    \E n \in ReadNames :
        /\ Changeable
        /\ record' = [record EXCEPT !.read_name = n]
        /\ NewWriter

PushCigarOp ==
    \E op \in CigarOps :
        /\ Len(record.cigar) < MaxCigarOps
        /\ record' = [record EXCEPT !.cigar = Append(@, op)]
        /\ NewWriter

\* the caller extends the empty CIGAR of a record without bases, scores and data
\* by the operations of LongCigar
ExtendCigar ==
    /\ record.cigar = <<>>
    /\ record.sequence.base_count = 0
    /\ record.quality_scores = <<>>
    /\ record.data = <<>>
    /\ record' = [record EXCEPT !.cigar = LongCigar]
    /\ NewWriter

PushBase ==
    /\ Changeable
    /\ record.sequence.base_count < MaxBases
    /\ record' = [record EXCEPT !.sequence =
                     SequencePush(@, BaseStream[(@.base_count % 4) + 1])]
    /\ NewWriter

PushScore ==
    /\ Changeable
    /\ Len(record.quality_scores) < MaxScores
    /\ record' = [record EXCEPT !.quality_scores =
                     Append(@, ScoreStream[(Len(@) % 4) + 1])]
    /\ NewWriter

InsertData ==
    /\ Changeable
    /\ record.data = <<>>
    /\ record' = [record EXCEPT !.data = DataField]
    /\ NewWriter

WriteRecord ==
    /\ ~bamOut.called
    /\ LET w == write_record(record)
       IN /\ buf' = w.bytes
          /\ bamOut' = [called |-> TRUE, kind |-> w.kind, error |-> w.error]
    /\ UNCHANGED record
    /\ UNCHANGED exceptBam

(***************************************************************************)
(* The async BAM writer: write_header, write_reference_sequences,          *)
(* write_record, write_sam_record and shutdown. hbuf is the payload the    *)
(* BGZF writer inside has been given.                                      *)
(***************************************************************************)
\* reference sequences a header holds at most, and calls made on a writer at most
MaxRefs == 2
MaxWriterCalls == 2

\* crate::MAGIC_NUMBER: "BAM\1"
MAGIC_NUMBER == <<66, 65, 77, 1>>

\* the reference sequences a header is given: sq0 of 8 bases, sq1 of 13 and chrM of 70000
RefSeqs ==
    {[name |-> <<115, 113, 48>>, len |-> 8],
     [name |-> <<115, 113, 49>>, len |-> 13],
     [name |-> <<99, 104, 114, 77>>, len |-> 70000]}

\* the comment of the writer's examples: "noodles-bam"
CommentText == <<110, 111, 111, 100, 108, 101, 115, 45, 98, 97, 109>>

\* a number in decimal digits
RECURSIVE ToDecimal(_)
ToDecimal(n) ==
    IF n < 10 THEN <<48 + n>> ELSE ToDecimal(n \div 10) \o <<48 + (n % 10)>>

\* sam::Header's Display: a line "@SQ\tSN:<name>\tLN:<len>\n" a reference
\* sequence, then a line "@CO\t<comment>\n" a comment
RECURSIVE SqLines(_)
SqLines(refs) ==
    IF refs = <<>> THEN <<>>
    ELSE <<64, 83, 81, 9, 83, 78, 58>> \o Head(refs).name
         \o <<9, 76, 78, 58>> \o ToDecimal(Head(refs).len) \o <<10>>
         \o SqLines(Tail(refs))

RECURSIVE CoLines(_)
CoLines(comments) ==
    IF comments = <<>> THEN <<>>
    ELSE <<64, 67, 79, 9>> \o Head(comments) \o <<10>> \o CoLines(Tail(comments))

HeaderToString(h) == SqLines(h.reference_sequences) \o CoLines(h.comments)

\* write_header: the magic number, l_text and the text
write_header(h) ==
    LET text == HeaderToString(h)
    IN MAGIC_NUMBER \o U32LE(Len(text)) \o text

\* write_reference_sequence: l_name counts the NUL of the C string
write_reference_sequence_no_nul(rs) ==
    U32LE(Len(rs.name)) \o rs.name \o <<0>> \o U32LE(rs.len)

write_reference_sequence(rs) ==
    LET name == rs.name \o <<0>>
    IN U32LE(Len(name)) \o name \o U32LE(rs.len)

RECURSIVE WriteEach(_)
WriteEach(refs) ==
    IF refs = <<>> THEN <<>>
    ELSE write_reference_sequence(Head(refs)) \o WriteEach(Tail(refs))

\* write_reference_sequences: n_ref, then each reference sequence in the order
\* of the header
write_reference_sequences(refs) == U32LE(Len(refs)) \o WriteEach(refs)

\* no call is suspended on the writer
NoFuture == [name |-> "none", rest |-> <<>>]

\* sam::Header::default() and a new writer
InitHdrState ==
    /\ header = [reference_sequences |-> <<>>, comments |-> <<>>]
    /\ hbuf = <<>>
    /\ hlog = <<>>
    /\ hcall = NoFuture

\* Builder::add_reference_sequence: the reference sequences are kept by name, in
\* the order they were added
AddReferenceSequence ==
    \E rs \in RefSeqs :
        /\ hlog = <<>> /\ hcall = NoFuture
        /\ Len(header.reference_sequences) < MaxRefs
        /\ \A i \in 1..Len(header.reference_sequences) :
               header.reference_sequences[i].name # rs.name
        /\ header' = [header EXCEPT !.reference_sequences = Append(@, rs)]
        /\ UNCHANGED <<hbuf, hlog, hcall>>
        /\ UNCHANGED exceptHdr

\* Builder::add_comment
AddComment ==
    /\ hlog = <<>> /\ hcall = NoFuture
    /\ header.comments = <<>>
    /\ header' = [header EXCEPT !.comments = <<CommentText>>]
    /\ UNCHANGED <<hbuf, hlog, hcall>>
    /\ UNCHANGED exceptHdr

(***************************************************************************)
(* The calls of the writer are async: each write_all and write_u32_le is   *)
(* awaited, and the writer takes the bytes of a call in any number of      *)
(* polls. A poll of the call named name with the bytes left to write: the  *)
(* writer takes the next k of them; the call returns when it took the last *)
(* and is suspended before.                                                *)
(***************************************************************************)
Polled(name, bytes, k) ==
    /\ hbuf' = hbuf \o SubSeq(bytes, 1, k)
    /\ IF k = Len(bytes)
       THEN /\ hcall' = NoFuture
            /\ hlog' = Append(hlog, name)
       ELSE /\ hcall' = [name |-> name, rest |-> SubSeq(bytes, k + 1, Len(bytes))]
            /\ UNCHANGED hlog
    /\ UNCHANGED header
    /\ UNCHANGED exceptHdr

\* a call is made on the writer: none is suspended, and fewer than MaxWriterCalls
\* calls have ended, none of them a shutdown or a call that was dropped with
\* bytes left to write
Callable ==
    /\ hcall = NoFuture
    /\ Len(hlog) < MaxWriterCalls
    /\ \A i \in 1..Len(hlog) : hlog[i] \notin {"shutdown", "dropped"}

\* Writer::write_header, up to its return or its first suspension
WriteHeader ==
    /\ Callable
    /\ \E k \in 0..Len(write_header(header)) :
           Polled("write_header", write_header(header), k)

\* Writer::write_reference_sequences, with the reference sequences of the header,
\* up to its return or its first suspension
WriteReferenceSequences ==
    /\ Callable
    /\ \E k \in 0..Len(write_reference_sequences(header.reference_sequences)) :
           Polled("write_reference_sequences",
                  write_reference_sequences(header.reference_sequences), k)

\* Writer::write_record with Record::default(): the bytes of the record as the
\* blocking writer lays them out
WriterWriteRecord ==
    /\ Callable
    /\ \E k \in 0..Len(write_record(DefaultRecord).bytes) :
           Polled("write_record", write_record(DefaultRecord).bytes, k)

\* the records write_sam_record is given, as the BAM records they convert to:
\* sam::Record::default(), and one with a quality score and no base
SamRecords == {DefaultRecord, [DefaultRecord EXCEPT !.quality_scores = <<45>>]}

\* Writer::write_sam_record: validate(record)? returns the error of an invalid
\* record before anything is written
WriteSamRecord ==
    /\ Callable
    /\ \E rec \in SamRecords :
           IF ~validate(rec)
           THEN /\ hlog' = Append(hlog, "write_sam_record: InvalidInput")
                /\ UNCHANGED <<header, hbuf, hcall>>
                /\ UNCHANGED exceptHdr
           ELSE \E k \in 0..Len(write_record(rec).bytes) :
                    Polled("write_sam_record", write_record(rec).bytes, k)

\* Writer::shutdown: the BGZF writer is flushed and closed; the writer takes no
\* further bytes of the payload
Shutdown ==
    /\ Callable
    /\ \E ready \in BOOLEAN :
           IF ready THEN Polled("shutdown", <<>>, 0)
           ELSE /\ hcall' = [name |-> "shutdown", rest |-> <<>>]
                /\ UNCHANGED <<header, hbuf, hlog>>
                /\ UNCHANGED exceptHdr

\* the suspended call is polled again and the writer takes further bytes
PollWriter ==
    /\ hcall # NoFuture
    /\ \E k \in 0..Len(hcall.rest) :
           /\ k > 0 \/ hcall.rest = <<>>
           /\ Polled(hcall.name, hcall.rest, k)

\* the suspended call is dropped: the bytes the writer took stay written
DropCall ==
    /\ hcall # NoFuture
    /\ hcall' = NoFuture
    /\ hlog' = Append(hlog, "dropped")
    /\ UNCHANGED <<header, hbuf>>
    /\ UNCHANGED exceptHdr

(***************************************************************************)
(* The async BCF reader: read_record. The input of the reader is a byte   *)
(* sequence: a read of n bytes with fewer than n left takes what is left   *)
(* and fails with UnexpectedEof.                                           *)
(***************************************************************************)
\* records a stream holds at most, and read_record calls on a stream at most
MaxRecords == 2
MaxReads == 3

\* the little-endian value of the 2 or 4 bytes of b from its k-th byte (1-based)
U16At(b, k) == b[k] + 256 * b[k + 1]
U32At(b, k) == b[k] + 256 * b[k + 1] + 65536 * b[k + 2] + 16777216 * b[k + 3]
I32At(b, k) ==
    b[k] + 256 * b[k + 1] + 65536 * b[k + 2]
         + 16777216 * (IF b[k + 3] >= 128 THEN b[k + 3] - 256 ELSE b[k + 3])

\* AsyncReadExt::read_u32_le after at bytes of s
read_u32_le(s, at) ==
    IF at + 4 <= Len(s)
    THEN [kind |-> "ok", value |-> U32At(s, at + 1), pos |-> at + 4]
    ELSE [kind |-> "err", error |-> "UnexpectedEof", pos |-> Len(s)]

\* Vec::resize(n, 0): the first n bytes kept, zeros added
Resize(b, n) == [i \in 1..n |-> IF i <= Len(b) THEN b[i] ELSE 0]

\* AsyncReadExt::read_exact into b after at bytes of s
read_exact(s, at, b) ==
    IF at + Len(b) <= Len(s)
    THEN [kind |-> "ok", out |-> SubSeq(s, at + 1, at + Len(b)), pos |-> at + Len(b)]
    ELSE [kind |-> "err", error |-> "UnexpectedEof",
          out |-> [i \in 1..Len(b) |-> IF at + i <= Len(s) THEN s[at + i] ELSE b[i]],
          pos |-> Len(s)]

\* the length of the fixed-width fields of a site
SitePrefixLen == 24

(***************************************************************************)
(* read_site: chrom, pos, rlen and qual (4 bytes each), n_allele << 16 |   *)
(* n_info, n_fmt << 24 | n_sample, then the typed values of the ids, the   *)
(* alleles, the filters and the info, which are kept as they are. The      *)
(* position of a record is 1-based.                                        *)
(***************************************************************************)
read_site(b) ==
    IF Len(b) < SitePrefixLen THEN [kind |-> "err", error |-> "UnexpectedEof"]
    ELSE [kind |-> "ok",
          site |-> [chromosome_id |-> I32At(b, 1),
                    position |-> I32At(b, 5) + 1,
                    rlen |-> I32At(b, 9),
                    quality_score |-> SubSeq(b, 13, 16),
                    n_info |-> U16At(b, 17),
                    n_allele |-> U16At(b, 19),
                    fields |-> SubSeq(b, SitePrefixLen + 1, Len(b))],
          n_fmt |-> b[24],
          n_sample |-> b[21] + 256 * b[22] + 65536 * b[23]]

BcfOk(n, pos, b, rec) ==
    [kind |-> "ok", n |-> n, error |-> "none", pos |-> pos, buf |-> b, record |-> rec]
BcfErr(e, pos, b, rec) ==
    [kind |-> "err", n |-> 0, error |-> e, pos |-> pos, buf |-> b, record |-> rec]

\* read_record on the bytes of s after at, with the caller's buf b and record rec
read_record_shared_only(s, at, b, rec) ==
    LET r1 == read_u32_le(s, at)
    IN IF r1.kind = "err" THEN BcfOk(0, r1.pos, b, rec)
       ELSE
       LET l_shared == r1.value
           r2 == read_u32_le(s, r1.pos)
       IN IF r2.kind = "err" THEN BcfErr(r2.error, r2.pos, b, rec)
          ELSE
          LET l_indiv == r2.value
              r3 == read_exact(s, r2.pos, Resize(b, l_shared))
          IN IF r3.kind = "err" THEN BcfErr(r3.error, r3.pos, r3.out, rec)
             ELSE
             LET st == read_site(r3.out)
             IN IF st.kind = "err" THEN BcfErr(st.error, r3.pos, r3.out, rec)
                ELSE
                LET r4 == read_exact(s, r3.pos, Resize(rec.genotypes.buf, l_indiv))
                IN IF r4.kind = "err"
                   THEN BcfErr(r4.error, r4.pos, r3.out,
                               [site |-> st.site,
                                genotypes |-> [rec.genotypes EXCEPT !.buf = r4.out]])
                   ELSE BcfOk(l_shared, r4.pos, r3.out,
                              [site |-> st.site,
                               genotypes |-> [buf |-> r4.out,
                                              format_count |-> st.n_fmt,
                                              sample_count |-> st.n_sample]])

read_record(s, at, b, rec) ==
    LET r1 == read_u32_le(s, at)
    IN IF r1.kind = "err" THEN BcfOk(0, r1.pos, b, rec)
       ELSE
       LET l_shared == r1.value
           r2 == read_u32_le(s, r1.pos)
       IN IF r2.kind = "err" THEN BcfErr(r2.error, r2.pos, b, rec)
          ELSE
          LET l_indiv == r2.value
              r3 == read_exact(s, r2.pos, Resize(b, l_shared))
          IN IF r3.kind = "err" THEN BcfErr(r3.error, r3.pos, r3.out, rec)
             ELSE
             LET st == read_site(r3.out)
             IN IF st.kind = "err" THEN BcfErr(st.error, r3.pos, r3.out, rec)
                ELSE
                LET r4 == read_exact(s, r3.pos, Resize(rec.genotypes.buf, l_indiv))
                IN IF r4.kind = "err"
                   THEN BcfErr(r4.error, r4.pos, r3.out,
                               [site |-> st.site,
                                genotypes |-> [rec.genotypes EXCEPT !.buf = r4.out]])
                   ELSE BcfOk(l_shared + l_indiv, r4.pos, r3.out,
                              [site |-> st.site,
                               genotypes |-> [buf |-> r4.out,
                                              format_count |-> st.n_fmt,
                                              sample_count |-> st.n_sample]])

\* the shared and the individual bytes of a record as the stream holds it
BcfEncode(shared, indiv) ==
    U32LE(Len(shared)) \o U32LE(Len(indiv)) \o shared \o indiv

\* chrom 1, pos 100, rlen 1, qual 30.1, 2 alleles (A, C), no id, filter PASS, no
\* info; 1 format key (int8 values) of 2 samples
RecordA ==
    BcfEncode(<<1, 0, 0, 0, 100, 0, 0, 0, 1, 0, 0, 0, 205, 204, 240, 65,
                0, 0, 2, 0, 2, 0, 0, 1, 7, 23, 65, 23, 67, 17, 0>>,
              <<17, 1, 17, 0, 1>>)

\* chrom 0, pos 7, rlen 3, no qual, 1 allele (ACG), no id, no filter, no info; no
\* genotypes
RecordB ==
    BcfEncode(<<0, 0, 0, 0, 7, 0, 0, 0, 3, 0, 0, 0, 1, 0, 128, 127,
                0, 0, 1, 0, 0, 0, 0, 0, 7, 55, 65, 67, 71, 0>>,
              <<>>)

\* a record whose shared bytes are too few for a site
RecordShort == BcfEncode(<<1, 0, 0, 0>>, <<>>)

BcfRecords == {RecordA, RecordB, RecordShort}

\* the streams of at most n records
RECURSIVE RecordStreams(_)
RecordStreams(n) ==
    IF n = 0 THEN {<<>>}
    ELSE LET shorter == RecordStreams(n - 1)
         IN shorter \cup {t \o r : t \in shorter, r \in BcfRecords}

\* the inputs: every stream of at most MaxRecords records, whole or cut anywhere
BcfStreams ==
    {SubSeq(t, 1, n) : <<t, n>> \in
        UNION {{<<t, n>> : n \in 0..Len(t)} : t \in RecordStreams(MaxRecords)}}

\* bcf::Record::default() and an empty buffer
BcfDefaultRecord ==
    [site |-> [chromosome_id |-> 0, position |-> 1, rlen |-> 0,
               quality_score |-> <<1, 0, 128, 127>>, n_info |-> 0, n_allele |-> 0,
               fields |-> <<>>],
     genotypes |-> [buf |-> <<>>, format_count |-> 0, sample_count |-> 0]]

\* no call is suspended on the reader; a suspended call is kept with where it
\* started and the caller's buf and record as they were then
NoRecordRead == [active |-> FALSE, at |-> 0, buf |-> <<>>, record |-> BcfDefaultRecord]

IdleBcf ==
    /\ stream = <<>>
    /\ bcfPos = 0
    /\ bcfBuf = <<>>
    /\ bcfRecord = BcfDefaultRecord
    /\ bcfResults = <<>>
    /\ bcfCall = NoRecordRead

InitBcfState ==
    /\ stream \in BcfStreams
    /\ bcfPos = 0
    /\ bcfBuf = <<>>
    /\ bcfRecord = BcfDefaultRecord
    /\ bcfResults = <<>>
    /\ bcfCall = NoRecordRead

(***************************************************************************)
(* read_record is async: it awaits the two read_u32_le (lines 14 and 20)   *)
(* and the two read_exact (lines 25 and 31), and the reader hands over the *)
(* bytes in any number of polls.                                           *)
(***************************************************************************)
\* the input ends before the bytes that the call started at `at` awaits: those of
\* l_shared, of l_indiv, the shared bytes or, after a site that read_site
\* accepts, the genotype bytes
RecordReaderEof(s, at) ==
    IF at + 8 > Len(s) THEN TRUE
    ELSE LET sharedEnd == at + 8 + U32At(s, at + 1)
         IN IF sharedEnd > Len(s) THEN TRUE
            ELSE IF read_site(SubSeq(s, at + 9, sharedEnd)).kind = "err" THEN FALSE
            ELSE sharedEnd + U32At(s, at + 5) > Len(s)

\* the caller's buf and record, b and rec when the reader had handed over the
\* first p bytes of s, when it has handed over q of them to that call: buf is
\* resized to l_shared (line 24) in the poll that ends l_indiv and filled from
\* its start; in the poll that ends the shared bytes the site is read into the
\* record (line 27) and the genotypes buffer is resized to l_indiv (line 30),
\* and it is filled from its start; the counts are set when the call returns
RecordAt(s, at, b, rec, p, q) ==
    LET Fill(base, from) ==
            [i \in 1..Len(base) |-> IF i <= q - from THEN s[from + i] ELSE base[i]]
        Genotypes(shared, sharedEnd) ==
            [buf |-> shared,
             record |-> IF q < sharedEnd THEN rec
                        ELSE [site |-> read_site(shared).site,
                              genotypes |-> [rec.genotypes EXCEPT !.buf =
                                  Fill(IF p < sharedEnd
                                       THEN Resize(rec.genotypes.buf, U32At(s, at + 5))
                                       ELSE rec.genotypes.buf,
                                       sharedEnd)]]]
    IN IF q < at + 8 THEN [buf |-> b, record |-> rec]
       ELSE Genotypes(Fill(IF p < at + 8 THEN Resize(b, U32At(s, at + 1)) ELSE b, at + 8),
                      at + 8 + U32At(s, at + 1))

\* a poll of the call that started at `at` with the caller's buf b0 and record
\* rec0: the call returns with the last byte it consumes, or after it when that
\* byte is the last of an input that ends early, and is suspended before, the
\* reader having handed over the first q bytes of the input, lo at least
RecordPolled(at, b0, rec0, lo) ==
    LET Suspended(end, eof) ==
            \E q \in lo..end :
                /\ q < end \/ eof
                /\ bcfPos' = q
                /\ bcfBuf' = RecordAt(stream, at, bcfBuf, bcfRecord, bcfPos, q).buf
                /\ bcfRecord' = RecordAt(stream, at, bcfBuf, bcfRecord, bcfPos, q).record
                /\ bcfCall' = [active |-> TRUE, at |-> at, buf |-> b0, record |-> rec0]
                /\ UNCHANGED bcfResults
        Returned(r) ==
            /\ bcfPos' = r.pos
            /\ bcfBuf' = r.buf
            /\ bcfRecord' = r.record
            /\ bcfResults' = Append(bcfResults,
                   [kind |-> r.kind, n |-> r.n, error |-> r.error, at |-> at,
                    changed |-> (r.record # rec0 \/ r.buf # b0)])
            /\ bcfCall' = NoRecordRead
        Polls(r) ==
            \/ Suspended(r.pos, RecordReaderEof(stream, at))
            \/ Returned(r)
    IN /\ Polls(read_record(stream, at, bcfBuf, bcfRecord))
       /\ UNCHANGED stream
       /\ UNCHANGED exceptBcf

\* a caller reads the next record, up to the return of the call or its first
\* suspension, until a call fails or is dropped; how a call ended is kept with
\* the position it started at and whether it changed the record or the buffer
ReadRecord ==
    /\ ~bcfCall.active
    /\ Len(bcfResults) < MaxReads
    /\ \A i \in 1..Len(bcfResults) : bcfResults[i].kind = "ok"
    /\ RecordPolled(bcfPos, bcfBuf, bcfRecord, bcfPos)

\* the suspended call is polled again and the reader hands over further bytes
PollRecordReader ==
    /\ bcfCall.active
    /\ RecordPolled(bcfCall.at, bcfCall.buf, bcfCall.record, bcfPos + 1)

\* the suspended call is dropped: the reader stays where it is, and the caller's
\* buf and record as the call left them
DropRecordRead ==
    /\ bcfCall.active
    /\ bcfCall' = NoRecordRead
    /\ bcfResults' = Append(bcfResults,
           [kind |-> "dropped", n |-> 0, error |-> "none", at |-> bcfCall.at,
            changed |-> (bcfRecord # bcfCall.record \/ bcfBuf # bcfCall.buf)])
    /\ UNCHANGED <<stream, bcfPos, bcfBuf, bcfRecord>>
    /\ UNCHANGED exceptBcf

(***************************************************************************)
(* The async CRAM reader: read_container. The container header and the     *)
(* blocks are read field by field; a field the bytes end in is an          *)
(* UnexpectedEof. The CRC32 of a header and of a block is read and kept,   *)
(* and not compared.                                                       *)
(***************************************************************************)
\* blocks a container holds or declares at most, and read_container calls at most
MaxBlocks == 3
MaxContainerReads == 2

FieldOk(v, pos) == [kind |-> "ok", value |-> v, pos |-> pos]
FieldErr(e, pos) == [kind |-> "err", error |-> e, pos |-> pos]

read_u8(s, at) ==
    IF at + 1 <= Len(s) THEN FieldOk(s[at + 1], at + 1)
    ELSE FieldErr("UnexpectedEof", Len(s))

read_i32_le(s, at) ==
    IF at + 4 <= Len(s) THEN FieldOk(I32At(s, at + 1), at + 4)
    ELSE FieldErr("UnexpectedEof", Len(s))

\* 4 bytes as they are
read_crc32(s, at) ==
    IF at + 4 <= Len(s) THEN FieldOk(SubSeq(s, at + 1, at + 4), at + 4)
    ELSE FieldErr("UnexpectedEof", Len(s))

\* itf8: the leading 1 bits of the first byte count the bytes that follow (0 to
\* 4); the 5-byte form takes the low 4 bits of its last byte; the value is an i32
read_itf8(s, at) ==
    IF at + 1 > Len(s) THEN FieldErr("UnexpectedEof", Len(s))
    ELSE LET b0 == s[at + 1]
             more == IF b0 < 128 THEN 0 ELSE IF b0 < 192 THEN 1
                     ELSE IF b0 < 224 THEN 2 ELSE IF b0 < 240 THEN 3 ELSE 4
         IN IF at + 1 + more > Len(s) THEN FieldErr("UnexpectedEof", Len(s))
            ELSE LET b(k) == s[at + 1 + k]
                     top == b0 % 16
                 IN FieldOk(CASE more = 0 -> b0
                              [] more = 1 -> (b0 % 64) * 256 + b(1)
                              [] more = 2 -> (b0 % 32) * 65536 + b(1) * 256 + b(2)
                              [] more = 3 -> (b0 % 16) * 16777216 + b(1) * 65536
                                                + b(2) * 256 + b(3)
                              [] more = 4 -> (IF top >= 8 THEN top - 16 ELSE top) * 268435456
                                                + b(1) * 1048576 + b(2) * 4096
                                                + b(3) * 16 + (b(4) % 16),
                            at + 1 + more)

\* ltf8, for the forms of 1 to 4 bytes (the longer forms hold values beyond the
\* integers of the model and are in none of its inputs)
read_ltf8(s, at) ==
    IF at + 1 > Len(s) THEN FieldErr("UnexpectedEof", Len(s))
    ELSE LET b0 == s[at + 1]
             more == CASE b0 < 128 -> 0 [] b0 \in 128..191 -> 1
                       [] b0 \in 192..223 -> 2 [] b0 \in 224..239 -> 3
         IN IF at + 1 + more > Len(s) THEN FieldErr("UnexpectedEof", Len(s))
            ELSE LET b(k) == s[at + 1 + k]
                 IN FieldOk(CASE more = 0 -> b0
                              [] more = 1 -> (b0 % 64) * 256 + b(1)
                              [] more = 2 -> (b0 % 32) * 65536 + b(1) * 256 + b(2)
                              [] more = 3 -> (b0 % 16) * 16777216 + b(1) * 65536
                                                + b(2) * 256 + b(3),
                            at + 1 + more)

ReadField(kind, s, at) ==
    CASE kind = "u8" -> read_u8(s, at)
      [] kind = "i32" -> read_i32_le(s, at)
      [] kind = "itf8" -> read_itf8(s, at)
      [] kind = "ltf8" -> read_ltf8(s, at)
      [] kind = "crc32" -> read_crc32(s, at)

\* the fields of the kinds given, one after the other, up to the first that fails
RECURSIVE ReadFields(_, _, _, _)
ReadFields(kinds, s, at, acc) ==
    LET Rest(r) == IF r.kind = "err" THEN r
                   ELSE ReadFields(Tail(kinds), s, r.pos, Append(acc, r.value))
    IN IF kinds = <<>> THEN FieldOk(acc, at)
       ELSE Rest(ReadField(Head(kinds), s, at))

(***************************************************************************)
(* read_header: length (i32), reference sequence id, alignment start,      *)
(* alignment span and record count (itf8), record counter and base count   *)
(* (ltf8), block count (itf8), the landmarks (a count and as many itf8)    *)
(* and the CRC32. A negative length, block count or landmark count is      *)
(* invalid data.                                                           *)
(***************************************************************************)
read_header(s, at) ==
    LET Build(f, l) ==
            IF l.kind = "err" THEN l
            ELSE FieldOk([len |-> f.value[1],
                          reference_sequence_id |-> f.value[2],
                          start_position |-> f.value[3],
                          alignment_span |-> f.value[4],
                          record_count |-> f.value[5],
                          record_counter |-> f.value[6],
                          base_count |-> f.value[7],
                          block_count |-> f.value[8],
                          landmarks |-> SubSeq(l.value, 1, f.value[9]),
                          crc32 |-> l.value[f.value[9] + 1]],
                         l.pos)
        Landmarks(f) ==
            IF f.kind = "err" THEN f
            ELSE IF f.value[1] < 0 \/ f.value[8] < 0 \/ f.value[9] < 0
                 THEN FieldErr("InvalidData", f.pos)
            ELSE Build(f, ReadFields([i \in 1..f.value[9] |-> "itf8"] \o <<"crc32">>,
                                     s, f.pos, <<>>))
    IN Landmarks(ReadFields(<<"i32", "itf8", "itf8", "itf8", "itf8", "ltf8", "ltf8",
                              "itf8", "itf8">>, s, at, <<>>))

(***************************************************************************)
(* read_block: method and content type (a byte each), content id, size in  *)
(* bytes and raw size (itf8), the data (size in bytes) and the CRC32. The  *)
(* methods are 0..4 and the content types 0..5.                            *)
(***************************************************************************)
read_block(s, at) ==
    LET Build(f, c) ==
            IF c.kind = "err" THEN c
            ELSE FieldOk([compression_method |-> f.value[1],
                          content_type |-> f.value[2],
                          content_id |-> f.value[3],
                          uncompressed_len |-> f.value[5],
                          data |-> SubSeq(s, f.pos + 1, f.pos + f.value[4]),
                          crc32 |-> c.value],
                         c.pos)
        Data(f) ==
            IF f.kind = "err" THEN f
            ELSE IF f.value[1] \notin 0..4 \/ f.value[2] \notin 0..5 \/ f.value[4] < 0
                      \/ f.value[5] < 0
                 THEN FieldErr("InvalidData", f.pos)
            ELSE IF f.pos + f.value[4] > Len(s) THEN FieldErr("UnexpectedEof", Len(s))
            ELSE Build(f, read_crc32(s, f.pos + f.value[4]))
    IN Data(ReadFields(<<"u8", "u8", "itf8", "itf8", "itf8">>, s, at, <<>>))

\* the loop of read_container: n blocks of b from its first at bytes on
RECURSIVE ReadBlocks(_, _, _, _)
ReadBlocks(b, at, n, acc) ==
    LET Rest(r) == IF r.kind = "err" THEN r
                   ELSE ReadBlocks(b, r.pos, n - 1, Append(acc, r.value))
    IN IF n = 0 THEN FieldOk(acc, at)
       ELSE Rest(read_block(b, at))

CramOk(c, pos, b) == [kind |-> "ok", error |-> "none", container |-> c, pos |-> pos, buf |-> b]
CramErr(e, pos, b) ==
    [kind |-> "err", error |-> e, container |-> <<>>, pos |-> pos, buf |-> b]

\* read_container on the bytes of s after at, with the caller's buffer b
read_container_one_block_less(s, at, b) ==
    LET Blocks(h, body, blocks) ==
            IF blocks.kind = "err" THEN CramErr(blocks.error, body.pos, <<>>)
            ELSE CramOk([header |-> h.value, blocks |-> blocks.value], body.pos, <<>>)
        Body(h, body) ==
            IF body.kind = "err" THEN CramErr(body.error, body.pos, body.out)
            ELSE Blocks(h, body,
                        ReadBlocks(body.out, 0,
                                   IF h.value.block_count = 0 THEN 0
                                   ELSE h.value.block_count - 1, <<>>))
        Header(h) ==
            IF h.kind = "err" THEN CramErr(h.error, h.pos, b)
            ELSE Body(h, read_exact(s, h.pos, Resize(b, h.value.len)))
    IN Header(read_header(s, at))

read_container(s, at, b) ==
    LET Blocks(h, body, blocks) ==
            IF blocks.kind = "err" THEN CramErr(blocks.error, body.pos, <<>>)
            ELSE CramOk([header |-> h.value, blocks |-> blocks.value], body.pos, <<>>)
        Body(h, body) ==
            IF body.kind = "err" THEN CramErr(body.error, body.pos, body.out)
            ELSE Blocks(h, body, ReadBlocks(body.out, 0, h.value.block_count, <<>>))
        Header(h) ==
            IF h.kind = "err" THEN CramErr(h.error, h.pos, b)
            ELSE Body(h, read_exact(s, h.pos, Resize(b, h.value.len)))
    IN Header(read_header(s, at))

\* the itf8 (and ltf8) bytes of -1 and of 0..16383
Itf8Bytes(n) ==
    IF n = -1 THEN <<255, 255, 255, 255, 15>>
    ELSE IF n < 128 THEN <<n>>
    ELSE <<128 + (n \div 256), n % 256>>

\* the bytes of a block (the CRC32 is not computed)
BlockBytes(method, content_type, content_id, data) ==
    <<method, content_type>> \o Itf8Bytes(content_id) \o Itf8Bytes(Len(data))
        \o Itf8Bytes(Len(data)) \o data \o <<170, 187, 204, 221>>

\* a compression header block, a slice header block and two external blocks
\* (raw, and gzip of content id 300)
BlockInputs ==
    <<BlockBytes(0, 1, 0, <<1, 2>>),
      BlockBytes(0, 2, 0, <<7>>),
      BlockBytes(0, 4, 1, <<65, 67, 71>>),
      BlockBytes(1, 4, 300, <<>>)>>

RECURSIVE Flatten(_)
Flatten(ss) == IF ss = <<>> THEN <<>> ELSE Head(ss) \o Flatten(Tail(ss))

\* the fields of a container header other than the length and the block count
HeaderProfiles ==
    {[reference_sequence_id |-> -1, start_position |-> 0, alignment_span |-> 0,
      record_count |-> 0, record_counter |-> 0, base_count |-> 0, landmarks |-> <<>>],
     [reference_sequence_id |-> 1, start_position |-> 200, alignment_span |-> 50,
      record_count |-> 3, record_counter |-> 7, base_count |-> 300,
      landmarks |-> <<11, 21>>]}

\* the bytes of a container: the header, with the length and the block count it
\* declares, and the body
ContainerBytes(p, len, block_count, body) ==
    I32LE(len) \o Itf8Bytes(p.reference_sequence_id) \o Itf8Bytes(p.start_position)
        \o Itf8Bytes(p.alignment_span) \o Itf8Bytes(p.record_count)
        \o Itf8Bytes(p.record_counter) \o Itf8Bytes(p.base_count)
        \o Itf8Bytes(block_count) \o Itf8Bytes(Len(p.landmarks))
        \o Flatten([i \in 1..Len(p.landmarks) |-> Itf8Bytes(p.landmarks[i])])
        \o <<17, 34, 51, 68>> \o body

\* a body is the first k blocks and then some bytes that are no block
Padding == <<255, 0, 255>>

\* the containers: k blocks and 0 or 3 more bytes in the body, a length that is
\* the length of the body or one byte less, and a block count of 0..MaxBlocks;
\* the header with landmarks comes with MaxBlocks blocks in the body
CramContainers ==
    UNION {{ContainerBytes(p, Len(Flatten(SubSeq(BlockInputs, 1, k))) + d, n,
                Flatten(SubSeq(BlockInputs, 1, k)) \o (IF d = 3 THEN Padding ELSE <<>>))
               : p \in {hp \in HeaderProfiles : hp.landmarks = <<>> \/ k = MaxBlocks},
                 d \in {-1, 0, 3}, n \in 0..MaxBlocks}
              : k \in 0..MaxBlocks}

\* the container that follows: one block
NextContainer ==
    ContainerBytes(CHOOSE p \in HeaderProfiles : p.landmarks = <<>>,
                   Len(BlockInputs[1]), 1, BlockInputs[1])

\* the inputs: a container, with the one that follows when its length is that of
\* its body, whole or cut anywhere
CramStreams ==
    LET Whole(c, h) == h.kind = "ok" /\ h.pos + h.value.len = Len(c)
        Stream(c) == IF Whole(c, read_header(c, 0)) THEN c \o NextContainer ELSE c
    IN {SubSeq(t, 1, n) : <<t, n>> \in
           UNION {{<<Stream(c), n>> : n \in 0..Len(Stream(c))} : c \in CramContainers}}

\* no call is suspended on the reader
NoRead == [active |-> FALSE, at |-> 0]

IdleCram ==
    /\ cramStream = <<>>
    /\ cramPos = 0
    /\ cramBuf = <<>>
    /\ cramResults = <<>>
    /\ cramCall = NoRead

InitCramState ==
    /\ cramStream \in CramStreams
    /\ cramPos = 0
    /\ cramBuf = <<>>
    /\ cramResults = <<>>
    /\ cramCall = NoRead

(***************************************************************************)
(* read_container is async: it awaits read_header (line 14) and read_exact *)
(* (line 17), and the reader hands over the bytes in any number of polls.  *)
(* The blocks are read from the buffer in memory.                          *)
(***************************************************************************)
\* the input ends before the bytes that a call awaits whose read_header returned
\* h: those of the header, or the header.len() bytes of the body
ReaderEof(s, h) ==
    IF h.kind = "err" THEN h.error = "UnexpectedEof"
    ELSE h.pos + h.value.len > Len(s)

\* the number of bytes of s the reader has handed over when that call returns
ReadEnd(s, h) ==
    IF h.kind = "err" THEN h.pos
    ELSE IF h.pos + h.value.len > Len(s) THEN Len(s)
    ELSE h.pos + h.value.len

\* the caller's buffer, b when the reader had handed over the first p bytes of s,
\* when it has handed over q of them to that call: the call resizes it to
\* header.len() (line 16) in the poll that ends the header, and read_exact fills
\* it from its start
BufferAt(s, h, b, p, q) ==
    LET Filled(base) ==
            [i \in 1..Len(base) |-> IF i <= q - h.pos THEN s[h.pos + i] ELSE base[i]]
    IN IF h.kind = "err" \/ q < h.pos THEN b
       ELSE Filled(IF p < h.pos THEN Resize(b, h.value.len) ELSE b)

\* a poll of the call that started at `at`: the call returns with the last byte
\* it consumes, or after it when that byte is the last of an input that ends
\* early, and is suspended before, the reader having handed over the first q
\* bytes of the input, lo at least
ReadPolled(at, lo) ==
    LET Suspended(h, end, eof) ==
            \E q \in lo..end :
                /\ q < end \/ eof
                /\ cramPos' = q
                /\ cramBuf' = BufferAt(cramStream, h, cramBuf, cramPos, q)
                /\ cramCall' = [active |-> TRUE, at |-> at]
                /\ UNCHANGED cramResults
        Returned(r) ==
            /\ cramPos' = r.pos
            /\ cramBuf' = r.buf
            /\ cramResults' = Append(cramResults,
                   [kind |-> r.kind, error |-> r.error, container |-> r.container,
                    at |-> at, left |-> r.pos])
            /\ cramCall' = NoRead
        Polls(h) ==
            \/ Suspended(h, ReadEnd(cramStream, h), ReaderEof(cramStream, h))
            \/ Returned(read_container(cramStream, at, cramBuf))
    IN /\ Polls(read_header(cramStream, at))
       /\ UNCHANGED cramStream
       /\ UNCHANGED exceptCram

\* a caller reads the next container, up to the return of the call or its first
\* suspension, until a call fails or is dropped
ReadContainer ==
    /\ ~cramCall.active
    /\ Len(cramResults) < MaxContainerReads
    /\ \A i \in 1..Len(cramResults) : cramResults[i].kind = "ok"
    /\ ReadPolled(cramPos, cramPos)

\* the suspended call is polled again and the reader hands over further bytes
PollReader ==
    /\ cramCall.active
    /\ ReadPolled(cramCall.at, cramPos + 1)

\* the suspended call is dropped: the reader stays where it is, and the caller's
\* buffer as the call left it
DropRead ==
    /\ cramCall.active
    /\ cramCall' = NoRead
    /\ cramResults' = Append(cramResults,
           [kind |-> "dropped", error |-> "none", container |-> <<>>,
            at |-> cramCall.at, left |-> cramPos])
    /\ UNCHANGED <<cramStream, cramPos, cramBuf>>
    /\ UNCHANGED exceptCram

(***************************************************************************)
(* WithPositions: the iterator over the features of a CRAM record with the *)
(* reference and read positions they start at. A feature is its kind, its  *)
(* position in the read and the length of what it carries (bases, scores,  *)
(* or the length of a deletion, reference skip, padding or hard clip).     *)
(* Positions stay far below usize::MAX, so no sum of positions overflows.  *)
(***************************************************************************)
\* features the underlying iterator yields at most
MaxFeatures == 3

\* the kinds of features next yields, each with the length the model gives it
YieldedKinds ==
    {<<"Bases", 2>>, <<"ReadBase", 1>>, <<"Substitution", 1>>, <<"Insertion", 2>>,
     <<"Deletion", 2>>, <<"InsertBase", 1>>, <<"ReferenceSkip", 3>>,
     <<"SoftClip", 2>>, <<"Padding", 1>>, <<"HardClip", 2>>}

\* the features next passes over: Scores(Position::MIN, 2 scores) and
\* QualityScore(Position::MIN, score)
ScoreFeatures ==
    {[kind |-> "Scores", position |-> 1, len |-> 2],
     [kind |-> "QualityScore", position |-> 1, len |-> 1]}

\* the alignment starts WithPositions::new is given
AlignmentStarts == {1, 7}

\* the match of next: continue, or the deltas of the reference and read positions
Arm_insertion_advances_reference(f) ==
    CASE f.kind = "Bases" -> [skip |-> FALSE, delta |-> <<f.len, f.len>>]
      [] f.kind = "Scores" -> [skip |-> TRUE, delta |-> <<0, 0>>]
      [] f.kind = "ReadBase" -> [skip |-> FALSE, delta |-> <<1, 1>>]
      [] f.kind = "Substitution" -> [skip |-> FALSE, delta |-> <<1, 1>>]
      [] f.kind = "Insertion" -> [skip |-> FALSE, delta |-> <<f.len, f.len>>]
      [] f.kind = "Deletion" -> [skip |-> FALSE, delta |-> <<f.len, 0>>]
      [] f.kind = "InsertBase" -> [skip |-> FALSE, delta |-> <<0, 1>>]
      [] f.kind = "QualityScore" -> [skip |-> TRUE, delta |-> <<0, 0>>]
      [] f.kind = "ReferenceSkip" -> [skip |-> FALSE, delta |-> <<f.len, 0>>]
      [] f.kind = "SoftClip" -> [skip |-> FALSE, delta |-> <<0, f.len>>]
      [] f.kind = "Padding" -> [skip |-> FALSE, delta |-> <<0, 0>>]
      [] f.kind = "HardClip" -> [skip |-> FALSE, delta |-> <<0, 0>>]

Arm_quality_score_yielded(f) ==
    CASE f.kind = "Bases" -> [skip |-> FALSE, delta |-> <<f.len, f.len>>]
      [] f.kind = "Scores" -> [skip |-> TRUE, delta |-> <<0, 0>>]
      [] f.kind = "ReadBase" -> [skip |-> FALSE, delta |-> <<1, 1>>]
      [] f.kind = "Substitution" -> [skip |-> FALSE, delta |-> <<1, 1>>]
      [] f.kind = "Insertion" -> [skip |-> FALSE, delta |-> <<0, f.len>>]
      [] f.kind = "Deletion" -> [skip |-> FALSE, delta |-> <<f.len, 0>>]
      [] f.kind = "InsertBase" -> [skip |-> FALSE, delta |-> <<0, 1>>]
      [] f.kind = "QualityScore" -> [skip |-> FALSE, delta |-> <<0, 0>>]
      [] f.kind = "ReferenceSkip" -> [skip |-> FALSE, delta |-> <<f.len, 0>>]
      [] f.kind = "SoftClip" -> [skip |-> FALSE, delta |-> <<0, f.len>>]
      [] f.kind = "Padding" -> [skip |-> FALSE, delta |-> <<0, 0>>]
      [] f.kind = "HardClip" -> [skip |-> FALSE, delta |-> <<0, 0>>]

Arm(f) ==
    CASE f.kind = "Bases" -> [skip |-> FALSE, delta |-> <<f.len, f.len>>]
      [] f.kind = "Scores" -> [skip |-> TRUE, delta |-> <<0, 0>>]
      [] f.kind = "ReadBase" -> [skip |-> FALSE, delta |-> <<1, 1>>]
      [] f.kind = "Substitution" -> [skip |-> FALSE, delta |-> <<1, 1>>]
      [] f.kind = "Insertion" -> [skip |-> FALSE, delta |-> <<0, f.len>>]
      [] f.kind = "Deletion" -> [skip |-> FALSE, delta |-> <<f.len, 0>>]
      [] f.kind = "InsertBase" -> [skip |-> FALSE, delta |-> <<0, 1>>]
      [] f.kind = "QualityScore" -> [skip |-> TRUE, delta |-> <<0, 0>>]
      [] f.kind = "ReferenceSkip" -> [skip |-> FALSE, delta |-> <<f.len, 0>>]
      [] f.kind = "SoftClip" -> [skip |-> FALSE, delta |-> <<0, f.len>>]
      [] f.kind = "Padding" -> [skip |-> FALSE, delta |-> <<0, 0>>]
      [] f.kind = "HardClip" -> [skip |-> FALSE, delta |-> <<0, 0>>]

(***************************************************************************)
(* next, from the i-th feature of fs on, at the positions refp and readp:  *)
(* what it returns (Some of the positions and the feature, None, or a      *)
(* panic), the positions it leaves and the number of features taken.       *)
(* checks tells whether the build has overflow checks. With a read         *)
(* position d beyond the position of the feature the subtraction of line   *)
(* 60 panics in a build with overflow checks; without them match_len wraps *)
(* to 2^64 - d, the checked_add of the reference position (lines 62-65)    *)
(* overflows and panics when refp >= d and otherwise stores refp - d       *)
(* + 2^64, and the checked_add of the read position (lines 67-70) then     *)
(* overflows and panics. A usize of 2^63 or more is written as the         *)
(* negative number it is in two's complement: 2^64 - 1 is -1.              *)
(***************************************************************************)
RECURSIVE WithPositionsNext(_, _, _, _, _)
WithPositionsNext(fs, i, refp, readp, checks) ==
    IF i > Len(fs)
    THEN [kind |-> "none", positions |-> <<>>, idx |-> 0,
          reference_position |-> refp, read_position |-> readp, taken |-> Len(fs)]
    ELSE IF Arm(fs[i]).skip THEN WithPositionsNext(fs, i + 1, refp, readp, checks)
    ELSE IF fs[i].position < readp
         THEN LET d == readp - fs[i].position
              IN [kind |-> "panic", positions |-> <<>>, idx |-> i,
                  reference_position |->
                      IF checks \/ refp >= d THEN refp ELSE refp - d,
                  read_position |-> readp, taken |-> i]
    ELSE LET match_len == fs[i].position - readp
         IN [kind |-> "some",
             positions |-> <<refp + match_len, readp + match_len>>,
             idx |-> i,
             reference_position |-> refp + match_len + Arm(fs[i]).delta[1],
             read_position |-> readp + match_len + Arm(fs[i]).delta[2],
             taken |-> i]

\* WithPositions::new over an iterator whose features are not known yet
IdleWp ==
    /\ iter = [items |-> <<>>, taken |-> 0, exhausted |-> FALSE]
    /\ alignment_start = 1
    /\ reference_position = 1
    /\ read_position = PositionMIN
    /\ yields = <<>>

InitWpState ==
    /\ iter = [items |-> <<>>, taken |-> 0, exhausted |-> FALSE]
    /\ alignment_start \in AlignmentStarts
    /\ reference_position = alignment_start
    /\ read_position = PositionMIN
    /\ yields = <<>>

\* the runs of at most n features that next passes over
RECURSIVE ScoreRuns(_)
ScoreRuns(n) ==
    IF n = 0 THEN {<<>>}
    ELSE LET shorter == ScoreRuns(n - 1)
         IN shorter \cup {Append(t, f) : t \in shorter, f \in ScoreFeatures}

\* the features the iterator may hold next: scores and then a feature next yields,
\* at a position one or two before, at or after the read position, or scores and
\* no more
NextFeatures(n) ==
    {run \o <<[kind |-> k[1], position |-> p, len |-> k[2]]>> :
        run \in ScoreRuns(n - 1), k \in YieldedKinds,
        p \in {read_position - 2, read_position - 1, read_position,
               read_position + 2} \ {-1, 0}}

\* a call of next, in a build with or without overflow checks, until one returns
\* None or panics; with what a call returned are kept the number of features taken
\* before it and the positions before it
NextReturned(r, items, exhausted) ==
    /\ iter' = [items |-> items, taken |-> r.taken, exhausted |-> exhausted]
    /\ reference_position' = r.reference_position
    /\ read_position' = r.read_position
    /\ yields' = Append(yields,
           [kind |-> r.kind, positions |-> r.positions, idx |-> r.idx,
            from |-> iter.taken, before |-> <<reference_position, read_position>>])
    /\ UNCHANGED alignment_start
    /\ UNCHANGED exceptWp

NextSome ==
    /\ \A j \in 1..Len(yields) : yields[j].kind = "some"
    /\ Len(iter.items) < MaxFeatures
    /\ \E fs \in NextFeatures(MaxFeatures - Len(iter.items)), checks \in BOOLEAN :
           NextReturned(WithPositionsNext(iter.items \o fs, iter.taken + 1,
                                          reference_position, read_position, checks),
                        iter.items \o fs, FALSE)

NextNone ==
    /\ \A j \in 1..Len(yields) : yields[j].kind = "some"
    /\ \E fs \in ScoreRuns(MaxFeatures - Len(iter.items)), checks \in BOOLEAN :
           NextReturned(WithPositionsNext(iter.items \o fs, iter.taken + 1,
                                          reference_position, read_position, checks),
                        iter.items \o fs, TRUE)

(***************************************************************************)
(* noodles-cram: the header of a slice and the end of its alignment. The   *)
(* header is given by its alignment start (None or a position) and its     *)
(* alignment span; both stay far below usize::MAX, so the sum of line 42   *)
(* does not overflow.                                                      *)
(***************************************************************************)
\* the largest alignment start and span of the slice headers of the model
MaxAlignmentStart == 11
MaxAlignmentSpan == 11

\* Option<Position>
NoPosition == [some |-> FALSE, position |-> 0]
SomePosition(n) == [some |-> TRUE, position |-> n]

\* Position::new: no position is 0
PositionNew(n) == IF n = 0 THEN NoPosition ELSE SomePosition(n)

alignment_end(h) ==
    IF ~h.alignment_start.some THEN NoPosition
    ELSE LET end == h.alignment_start.position + h.alignment_span + 1
         IN PositionNew(end)

SliceHeaders ==
    {[alignment_start |-> PositionNew(s), alignment_span |-> n] :
        s \in 0..MaxAlignmentStart, n \in 0..MaxAlignmentSpan}

\* Header::default in the builder: no alignment start, a span of 0
IdleSlice ==
    /\ slice_header = [alignment_start |-> NoPosition, alignment_span |-> 0]
    /\ slice_end = [called |-> FALSE, value |-> NoPosition]

InitSliceState ==
    /\ slice_header \in SliceHeaders
    /\ slice_end = [called |-> FALSE, value |-> NoPosition]

\* a call of Header::alignment_end(&self)
AlignmentEnd ==
    /\ ~slice_end.called
    /\ slice_end' = [called |-> TRUE, value |-> alignment_end(slice_header)]
    /\ UNCHANGED slice_header
    /\ UNCHANGED exceptSlice

(***************************************************************************)
(* noodles-csi: the start position of the first record in the last linear  *)
(* bin of a reference sequence. An Option is a sequence of length 0 or 1.  *)
(***************************************************************************)
\* the most bins a reference sequence of this part holds
MaxBins == 3

\* the bins of the doc example, (0, 8) and (1, 13), and leaf bins of the trees of
\* depth 1 and 2, each with either loffset
LinearBins == {Bin(id, l, <<>>) : id \in {0, 1, 9, 17}, l \in {8, 13}}

\* the bin lists of at most n bins with distinct ids, in every order
RECURSIVE BinLists(_)
BinLists(n) ==
    IF n = 0 THEN {<<>>}
    ELSE LET shorter == BinLists(n - 1)
         IN shorter \cup
            UNION {{Append(bs, b) :
                       b \in {c \in LinearBins : \A i \in 1..Len(bs) : bs[i].id # c.id}} :
                   bs \in shorter}

first_record_in_last_linear_bin_start_position(rs) ==
    IF rs.bins = <<>> THEN <<>>
    ELSE <<rs.bins[Len(rs.bins)].loffset>>

\* ReferenceSequence::new(Vec::new(), None)
IdleLin ==
    /\ lin_reference_sequence = ReferenceSequenceNew(<<>>, <<>>)
    /\ lin_out = [called |-> FALSE, value |-> <<>>]

InitLinState ==
    /\ \E bs \in BinLists(MaxBins) :
           lin_reference_sequence = ReferenceSequenceNew(bs, <<>>)
    /\ lin_out = [called |-> FALSE, value |-> <<>>]

\* a call of first_record_in_last_linear_bin_start_position(&self)
FirstRecordInLastLinearBin ==
    /\ ~lin_out.called
    /\ lin_out' =
           [called |-> TRUE,
            value |-> first_record_in_last_linear_bin_start_position(
                          lin_reference_sequence)]
    /\ UNCHANGED lin_reference_sequence
    /\ UNCHANGED exceptLin

(***************************************************************************)
(* noodles-cram: the writer of the tag encoding map of a compression       *)
(* header. The map is the sequence of its (key, encoding) entries in the   *)
(* order of its iterator; the destination writer is a Vec<u8>, the bytes   *)
(* it has received. write_itf8 and write_encoding are taken from the       *)
(* layout of the format: an encoding is its codec id, the byte length of   *)
(* its arguments and its arguments, all itf8.                              *)
(***************************************************************************)
\* the most entries a tag encoding map of the model holds
MaxTagEntries == 2

\* itf8: 1 to 5 bytes, the leading 1 bits of the first byte count the bytes that
\* follow; \div and % round towards minus infinity (two's complement)
write_itf8(n) ==
    IF 0 <= n /\ n < 128 THEN <<n>>
    ELSE IF 0 <= n /\ n < 16384 THEN <<128 + (n \div 256), n % 256>>
    ELSE IF 0 <= n /\ n < 2097152
         THEN <<192 + (n \div 65536), (n \div 256) % 256, n % 256>>
    ELSE IF 0 <= n /\ n < 268435456
         THEN <<224 + (n \div 16777216), (n \div 65536) % 256, (n \div 256) % 256, n % 256>>
    ELSE <<240 + ((n \div 268435456) % 16), (n \div 1048576) % 256, (n \div 4096) % 256,
           (n \div 16) % 256, n % 16>>

\* encodings: External(block_content_id), ByteArrayStop(stop_byte,
\* block_content_id) and Beta(offset, len), whose len is a u32: fits tells
\* whether it is at most i32::MAX
External(id) == [kind |-> "External", a |-> id, b |-> 0, fits |-> TRUE]
ByteArrayStop(stop, id) == [kind |-> "ByteArrayStop", a |-> stop, b |-> id, fits |-> TRUE]
Beta(offset, len, fits) == [kind |-> "Beta", a |-> offset, b |-> len, fits |-> fits]

EncodingArgs(e) ==
    CASE e.kind = "External" -> write_itf8(e.a)
      [] e.kind = "ByteArrayStop" -> <<e.a>> \o write_itf8(e.b)
      [] e.kind = "Beta" -> write_itf8(e.a) \o write_itf8(e.b)

EncodingKindId(e) ==
    CASE e.kind = "External" -> 1
      [] e.kind = "ByteArrayStop" -> 5
      [] e.kind = "Beta" -> 6

\* write_encoding into a Vec: the bytes appended, or InvalidInput for a length
\* that does not fit an i32
write_encoding(e) ==
    IF ~e.fits THEN [kind |-> "err", error |-> "InvalidInput", bytes |-> <<>>]
    ELSE [kind |-> "ok", error |-> "none",
          bytes |-> write_itf8(EncodingKindId(e))
                        \o write_itf8(Len(EncodingArgs(e))) \o EncodingArgs(e)]

\* the loop of lines 19-22 over the entries from the i-th on
RECURSIVE WriteEntries(_, _, _)
WriteEntries(entries, i, b) ==
    IF i > Len(entries) THEN [kind |-> "ok", error |-> "none", buf |-> b]
    ELSE LET Entry(e) ==
                 IF e.kind = "err" THEN [kind |-> "err", error |-> e.error, buf |-> b]
                 ELSE WriteEntries(entries, i + 1,
                                   b \o write_itf8(entries[i].key) \o e.bytes)
         IN Entry(write_encoding(entries[i].encoding))

write_tag_encoding_map_flushes_on_error(w, map) ==
    LET Written(r) ==
            IF r.kind = "err" THEN [kind |-> "err", error |-> r.error, writer |-> w \o r.buf]
            ELSE [kind |-> "ok", error |-> "none",
                  writer |-> w \o write_itf8(Len(r.buf)) \o r.buf]
    IN Written(WriteEntries(map, 1, write_itf8(Len(map))))

write_tag_encoding_map(w, map) ==
    LET Written(r) ==
            IF r.kind = "err" THEN [kind |-> "err", error |-> r.error, writer |-> w]
            ELSE [kind |-> "ok", error |-> "none",
                  writer |-> w \o write_itf8(Len(r.buf)) \o r.buf]
    IN Written(WriteEntries(map, 1, write_itf8(Len(map))))

\* keys: the packed tag and type of NM:c, AM:c and OQ:Z
TagKeys == {5131619, 4279651, 5198170}

TagEncodings ==
    {External(1), External(300), ByteArrayStop(0, 2), Beta(0, 8, TRUE),
     Beta(0, 0, FALSE)}

\* the maps of at most n entries with distinct keys, in every iteration order
RECURSIVE TagEncodingMaps(_)
TagEncodingMaps(n) ==
    IF n = 0 THEN {<<>>}
    ELSE LET shorter == TagEncodingMaps(n - 1)
         IN shorter \cup
            UNION {{Append(m, [key |-> k, encoding |-> e]) :
                       k \in {c \in TagKeys : \A i \in 1..Len(m) : m[i].key # c},
                       e \in TagEncodings} :
                   m \in shorter}

\* an empty map and a writer that has received nothing
IdleTag ==
    /\ tag_encoding_map = <<>>
    /\ tag_writer = <<>>
    /\ tag_out = [called |-> FALSE, kind |-> "none", error |-> "none", before |-> <<>>]

\* the writer has received nothing yet, or the bytes of an earlier map
InitTagState ==
    /\ tag_encoding_map \in TagEncodingMaps(MaxTagEntries)
    /\ tag_writer \in {<<>>, <<1, 0>>}
    /\ tag_out = [called |-> FALSE, kind |-> "none", error |-> "none", before |-> <<>>]

\* a call of write_tag_encoding_map
WriteTagEncodingMap ==
    /\ ~tag_out.called
    /\ LET Returned(r) ==
               /\ tag_writer' = r.writer
               /\ tag_out' = [called |-> TRUE, kind |-> r.kind, error |-> r.error,
                              before |-> tag_writer]
       IN Returned(write_tag_encoding_map(tag_writer, tag_encoding_map))
    /\ UNCHANGED tag_encoding_map
    /\ UNCHANGED exceptTag

(***************************************************************************)
(* noodles-sam: the writer of the CIGAR of a record. A CIGAR is the        *)
(* sequence of its operations, each a kind and a length; the writer is a   *)
(* Vec<u8>, cleared before the call.                                       *)
(***************************************************************************)
\* the most operations a CIGAR of the model holds
MaxSamOps == 2

\* b'*'
MISSING == 42

\* itoa of an integer: its decimal text, with a sign when it is negative
write_int(n) == IF n < 0 THEN <<45>> \o ToDecimal(0 - n) ELSE ToDecimal(n)

\* the match of lines 20-30
KindChar_sequence_match_as_match(kind) ==
    CASE kind = "Match" -> 77
      [] kind = "Insertion" -> 73
      [] kind = "Deletion" -> 68
      [] kind = "Skip" -> 78
      [] kind = "SoftClip" -> 83
      [] kind = "HardClip" -> 72
      [] kind = "Pad" -> 80
      [] kind = "SequenceMatch" -> 77
      [] kind = "SequenceMismatch" -> 88

KindChar(kind) ==
    CASE kind = "Match" -> 77
      [] kind = "Insertion" -> 73
      [] kind = "Deletion" -> 68
      [] kind = "Skip" -> 78
      [] kind = "SoftClip" -> 83
      [] kind = "HardClip" -> 72
      [] kind = "Pad" -> 80
      [] kind = "SequenceMatch" -> 61
      [] kind = "SequenceMismatch" -> 88

\* the loop of lines 17-33
RECURSIVE WriteOps(_)
WriteOps(ops) ==
    IF ops = <<>> THEN <<>>
    ELSE write_int(Head(ops).len) \o <<KindChar(Head(ops).kind)>> \o WriteOps(Tail(ops))

write_cigar(w, cigar) ==
    IF cigar = <<>> THEN w \o <<MISSING>> ELSE w \o WriteOps(cigar)

\* the CIGARs of at most n operations of the 9 kinds and of lengths of 1 to 3 digits
RECURSIVE Cigars(_)
Cigars(n) ==
    IF n = 0 THEN {<<>>}
    ELSE LET shorter == Cigars(n - 1)
         IN shorter \cup
            {Append(c, [kind |-> k, len |-> l]) :
                c \in shorter,
                k \in {"Match", "Insertion", "Deletion", "Skip", "SoftClip", "HardClip",
                       "Pad", "SequenceMatch", "SequenceMismatch"},
                l \in {1, 8, 10, 150}}

\* Cigar::default() and a cleared buffer
IdleCig ==
    /\ sam_cigar = <<>>
    /\ sam_cigar_out = [called |-> FALSE, buf |-> <<>>]

InitCigState ==
    /\ sam_cigar \in Cigars(MaxSamOps)
    /\ sam_cigar_out = [called |-> FALSE, buf |-> <<>>]

\* a call of write_cigar on the cleared buffer
SamWriteCigar ==
    /\ ~sam_cigar_out.called
    /\ sam_cigar_out' = [called |-> TRUE, buf |-> write_cigar(<<>>, sam_cigar)]
    /\ UNCHANGED sam_cigar
    /\ UNCHANGED exceptCig

(***************************************************************************)
(* noodles-sam: the writer of the value of a data field. A value is its    *)
(* type with an integer (n), a text (s) or the elements of an array        *)
(* (values); floats have integral values, which Display prints without a   *)
(* fraction. The writer is a Vec<u8>, cleared before the call.             *)
(***************************************************************************)
\* the most elements an array value of the model holds
MaxArrayLen == 2

SamValue(type, n, s, values) == [type |-> type, n |-> n, s |-> s, values |-> values]

\* the character of the subtype of an array
write_subtype(subtype) ==
    CASE subtype = "Int8" -> <<99>>
      [] subtype = "UInt8" -> <<67>>
      [] subtype = "Int16" -> <<115>>
      [] subtype = "UInt16" -> <<83>>
      [] subtype = "Int32" -> <<105>>
      [] subtype = "UInt32" -> <<73>>
      [] subtype = "Float" -> <<102>>

\* the loop over the elements of an array: the delimiter, then the element
RECURSIVE WriteElements(_)
WriteElements(values) ==
    IF values = <<>> THEN <<>>
    ELSE <<44>> \o write_int(Head(values)) \o WriteElements(Tail(values))

write_value_delimiter_after(w, value) ==
    CASE value.type = "Char" -> w \o <<value.n>>
      [] value.type \in {"Int8", "UInt8", "Int16", "UInt16", "Int32", "UInt32"} ->
             w \o write_int(value.n)
      [] value.type = "Float" -> w \o write_int(value.n)
      [] value.type \in {"String", "Hex"} -> w \o value.s
      [] value.type = "Int8Array" ->
             w \o write_subtype("Int8") \o WriteElements(value.values)
      [] value.type = "UInt8Array" ->
             w \o write_subtype("UInt8") \o WriteElements(value.values)
      [] value.type = "Int16Array" ->
             w \o write_subtype("Int16") \o WriteElements(value.values)
      [] value.type = "UInt16Array" ->
             w \o write_subtype("UInt16") \o WriteElements(value.values)
      [] value.type = "Int32Array" ->
             w \o write_subtype("Int32") \o WriteElements(value.values)
      [] value.type = "UInt32Array" ->
             LET elements == WriteElements(value.values)
             IN w \o write_subtype("UInt32")
                  \o (IF elements = <<>> THEN <<>> ELSE Tail(elements) \o <<44>>)
      [] value.type = "FloatArray" ->
             w \o write_subtype("Float") \o WriteElements(value.values)

write_value(w, value) ==
    CASE value.type = "Char" -> w \o <<value.n>>
      [] value.type \in {"Int8", "UInt8", "Int16", "UInt16", "Int32", "UInt32"} ->
             w \o write_int(value.n)
      [] value.type = "Float" -> w \o write_int(value.n)
      [] value.type \in {"String", "Hex"} -> w \o value.s
      [] value.type = "Int8Array" ->
             w \o write_subtype("Int8") \o WriteElements(value.values)
      [] value.type = "UInt8Array" ->
             w \o write_subtype("UInt8") \o WriteElements(value.values)
      [] value.type = "Int16Array" ->
             w \o write_subtype("Int16") \o WriteElements(value.values)
      [] value.type = "UInt16Array" ->
             w \o write_subtype("UInt16") \o WriteElements(value.values)
      [] value.type = "Int32Array" ->
             w \o write_subtype("Int32") \o WriteElements(value.values)
      [] value.type = "UInt32Array" ->
             w \o write_subtype("UInt32") \o WriteElements(value.values)
      [] value.type = "FloatArray" ->
             w \o write_subtype("Float") \o WriteElements(value.values)

\* the sequences of at most n elements of the set elems
RECURSIVE ArraysOf(_, _)
ArraysOf(elems, n) ==
    IF n = 0 THEN {<<>>}
    ELSE LET shorter == ArraysOf(elems, n - 1)
         IN shorter \cup {Append(a, e) : a \in shorter, e \in elems}

\* the values of test_write_value and more of their kind
SamValues(n) ==
    {SamValue("Char", 110, <<>>, <<>>), SamValue("Float", 8, <<>>, <<>>),
     SamValue("String", 0, <<110, 100, 108, 115>>, <<>>),
     SamValue("Hex", 0, <<67, 65, 70, 69>>, <<>>)}
    \cup {SamValue(t, k, <<>>, <<>>) :
            t \in {"Int8", "Int16", "Int32"}, k \in {-128, -89, -2, 0, 1, 3, 8, 127}}
    \cup {SamValue(t, k, <<>>, <<>>) :
            t \in {"UInt8", "UInt16", "UInt32"}, k \in {0, 2, 5, 13, 100, 255}}
    \cup {SamValue(t, 0, <<>>, a) :
            t \in {"Int8Array", "Int16Array", "Int32Array"},
            a \in ArraysOf({1, -2, 8, -13, 55, -89, 0}, n)}
    \cup {SamValue(t, 0, <<>>, a) :
            t \in {"UInt8Array", "UInt16Array", "UInt32Array"},
            a \in ArraysOf({3, 5, 21, 34, 144, 223, 0}, n)}
    \cup {SamValue("FloatArray", 0, <<>>, a) : a \in ArraysOf({8, 13}, n)}

\* a cleared buffer and the first value of test_write_value
IdleVal ==
    /\ sam_value = SamValue("Char", 110, <<>>, <<>>)
    /\ sam_value_out = [called |-> FALSE, buf |-> <<>>]

InitValState ==
    /\ sam_value \in SamValues(MaxArrayLen)
    /\ sam_value_out = [called |-> FALSE, buf |-> <<>>]

\* a call of write_value on the cleared buffer
SamWriteValue ==
    /\ ~sam_value_out.called
    /\ sam_value_out' = [called |-> TRUE, buf |-> write_value(<<>>, sam_value)]
    /\ UNCHANGED sam_value
    /\ UNCHANGED exceptVal

(***************************************************************************)
(* Specifications: one a component, and all of them together.              *)
(***************************************************************************)
\* a component nobody uses: the state it is constructed in
IdleCsi ==
    /\ min_shift = 14
    /\ depth = 5
    /\ reference_sequences = <<>>
    /\ csiOut = NoCall

Init ==
    InitCsiState /\ InitBamState /\ InitHdrState /\ InitBcfState /\ InitCramState
        /\ InitWpState /\ InitSliceState /\ InitLinState /\ InitTagState
        /\ InitCigState /\ InitValState

NextCsi == IndexQuery

NextBam ==
    \/ SetFields
    \/ SetReadName
    \/ PushCigarOp
    \/ ExtendCigar
    \/ PushBase
    \/ PushScore
    \/ InsertData
    \/ WriteRecord

NextHdr ==
    \/ AddReferenceSequence
    \/ AddComment
    \/ WriteHeader
    \/ WriteReferenceSequences
    \/ WriterWriteRecord
    \/ WriteSamRecord
    \/ Shutdown
    \/ PollWriter
    \/ DropCall

NextBcf == ReadRecord \/ PollRecordReader \/ DropRecordRead

NextCram == ReadContainer \/ PollReader \/ DropRead

NextWp == NextSome \/ NextNone

\* the components a specification does not use, as they are constructed
IdleWriters == InitBamState /\ InitHdrState
IdleReaders == IdleBcf /\ IdleCram

\* the components of a single call: the slice header, the last linear bin, the
\* tag encoding map writer and the SAM CIGAR and value writers; a specification
\* of one of them starts every other component as constructed
IdleFormats == IdleCsi /\ IdleWriters /\ IdleReaders /\ IdleWp

IdleCalls ==
    IdleSlice
        /\ IdleLin
        /\ IdleTag
        /\ IdleCig
        /\ IdleVal

NextSlice == AlignmentEnd

InitSlice ==
    IdleFormats /\ InitSliceState
        /\ IdleLin
        /\ IdleTag
        /\ IdleCig
        /\ IdleVal

SpecSlice == InitSlice /\ [][NextSlice]_vars

NextLin == FirstRecordInLastLinearBin

InitLin ==
    IdleFormats /\ InitLinState
        /\ IdleSlice
        /\ IdleTag
        /\ IdleCig
        /\ IdleVal

SpecLin == InitLin /\ [][NextLin]_vars

NextTag == WriteTagEncodingMap

InitTag ==
    IdleFormats /\ InitTagState
        /\ IdleSlice
        /\ IdleLin
        /\ IdleCig
        /\ IdleVal

SpecTag == InitTag /\ [][NextTag]_vars

NextCig == SamWriteCigar

InitCig ==
    IdleFormats /\ InitCigState
        /\ IdleSlice
        /\ IdleLin
        /\ IdleTag
        /\ IdleVal

SpecCig == InitCig /\ [][NextCig]_vars

NextVal == SamWriteValue

InitVal ==
    IdleFormats /\ InitValState
        /\ IdleSlice
        /\ IdleLin
        /\ IdleTag
        /\ IdleCig

SpecVal == InitVal /\ [][NextVal]_vars

InitCsi == InitCsiState /\ IdleWriters /\ IdleReaders /\ IdleWp
    /\ IdleCalls

InitBam == IdleCsi /\ InitBamState /\ InitHdrState /\ IdleReaders /\ IdleWp
    /\ IdleCalls

InitHdr == IdleCsi /\ InitHdrState /\ InitBamState /\ IdleReaders /\ IdleWp
    /\ IdleCalls

InitBcf == IdleCsi /\ IdleWriters /\ InitBcfState /\ IdleCram /\ IdleWp
    /\ IdleCalls

InitCram == IdleCsi /\ IdleWriters /\ IdleBcf /\ InitCramState /\ IdleWp
    /\ IdleCalls

InitWp == IdleCsi /\ IdleWriters /\ IdleReaders /\ InitWpState
    /\ IdleCalls

Next ==
    NextCsi \/ NextBam \/ NextHdr \/ NextBcf \/ NextCram \/ NextWp
        \/ NextSlice \/ NextLin \/ NextTag \/ NextCig \/ NextVal

SpecCsi == InitCsi /\ [][NextCsi]_vars

SpecBam == InitBam /\ [][NextBam]_vars

SpecHdr == InitHdr /\ [][NextHdr]_vars

SpecBcf == InitBcf /\ [][NextBcf]_vars

SpecCram == InitCram /\ [][NextCram]_vars

SpecWp == InitWp /\ [][NextWp]_vars

Spec == Init /\ [][Next]_vars

(***************************************************************************)
(* Properties of the index query.                                          *)
(***************************************************************************)
\* the reference sequence id of the last call names a reference sequence
RidValid == csiOut.rid + 1 \in 1..Len(reference_sequences)

QueryOk == csiOut.called /\ csiOut.kind = "ok"

\* the first bin id of level l, and the shift of level l, in closed form
LevelOffset(l) == (8 ^ l - 1) \div 7
LevelShift(l) == min_shift + 3 * (depth - l)

\* the level of a bin id of the tree, and the 0-based window [lo, hi] of the bin
BinLevel(id) == CHOOSE l \in 0..depth : LevelOffset(l) <= id /\ id < LevelOffset(l + 1)
BinWindowLo(id) == (id - LevelOffset(BinLevel(id))) * 2 ^ LevelShift(BinLevel(id))
BinWindowHi(id) == (id - LevelOffset(BinLevel(id)) + 1) * 2 ^ LevelShift(BinLevel(id)) - 1
BinOverlaps(id, start, end) ==
    /\ id < LevelOffset(depth + 1)
    /\ BinWindowLo(id) <= end - 1
    /\ start - 1 <= BinWindowHi(id)

\* C1: reg2bins marks exactly the bins of the reference formula: for every level
\* l in 0..=depth the ids t_l + (beg >> s_l) ..= t_l + (e >> s_l), with
\* beg = start - 1, e = end - 1, s_l = min_shift + 3 * (depth - l) and
\* t_l = (8^l - 1) / 7, and no other bin; with min_shift = 4 and depth = 2,
\* (1,16) and (9,13) give {0,1,9}, (36,67) gives {0,1,11,12,13} and (49,143)
\* gives {0,1,2,12,13,14,15,16,17}.
C1_Reg2binsReferenceFormula ==
    QueryOk =>
        LET beg == csiOut.start - 1
            e == csiOut.end - 1
            lo(l) == LevelOffset(l) + (beg \div (2 ^ LevelShift(l)))
            hi(l) == LevelOffset(l) + (e \div (2 ^ LevelShift(l)))
        IN /\ \A l \in 0..depth : \A i \in lo(l)..hi(l) : i \in csiOut.region_bins
           /\ \A i \in csiOut.region_bins : \E l \in 0..depth : lo(l) <= i /\ i <= hi(l)
           /\ (min_shift = 4 /\ depth = 2) =>
                /\ (csiOut.start = 1 /\ csiOut.end = 16) => csiOut.region_bins = {0, 1, 9}
                /\ (csiOut.start = 9 /\ csiOut.end = 13) => csiOut.region_bins = {0, 1, 9}
                /\ (csiOut.start = 36 /\ csiOut.end = 67)
                      => csiOut.region_bins = {0, 1, 11, 12, 13}
                /\ (csiOut.start = 49 /\ csiOut.end = 143)
                      => csiOut.region_bins = {0, 1, 2, 12, 13, 14, 15, 16, 17}

C1_Witness ==
    /\ QueryOk
    /\ min_shift = 4 /\ depth = 2
    /\ csiOut.start = 49 /\ csiOut.end = 143
    /\ csiOut.region_bins = {0, 1, 2, 12, 13, 14, 15, 16, 17}

\* C2: for start <= end <= max_position, reg2bins marks a bin if and only if the
\* bin's window overlaps the interval, the bin with index k at level l covering
\* the 0-based positions [k * 2^s_l, (k+1) * 2^s_l - 1]; bin 0 is always marked.
C2_MarkedIffOverlaps ==
    (QueryOk /\ csiOut.start <= csiOut.end) =>
        /\ 0 \in csiOut.region_bins
        /\ \A l \in 0..depth : \A k \in 0..(8 ^ l - 1) :
              (LevelOffset(l) + k \in csiOut.region_bins)
                 <=> (/\ k * 2 ^ LevelShift(l) <= csiOut.end - 1
                      /\ csiOut.start - 1 <= (k + 1) * 2 ^ LevelShift(l) - 1)
        /\ \A i \in csiOut.region_bins : i < LevelOffset(depth + 1)

C2_Witness ==
    /\ QueryOk
    /\ min_shift = 4 /\ depth = 2
    /\ csiOut.start = 36 /\ csiOut.end = 67
    /\ 12 \in csiOut.region_bins
    /\ 10 \notin csiOut.region_bins
    /\ 2 \notin csiOut.region_bins

\* C3: the chunks a query returns are sorted ascending by chunk_beg and pairwise
\* non-overlapping (chunks with chunk_end_i >= chunk_beg_{i+1} are merged).
C3_ChunksSortedNonOverlapping ==
    QueryOk =>
        \A i \in 1..(Len(csiOut.chunks) - 1) :
            /\ csiOut.chunks[i].chunk_beg <= csiOut.chunks[i + 1].chunk_beg
            /\ csiOut.chunks[i].chunk_end < csiOut.chunks[i + 1].chunk_beg

RECURSIVE OverlappingChunks(_, _, _)
OverlappingChunks(bins, start, end) ==
    IF bins = <<>> THEN <<>>
    ELSE (IF BinOverlaps(Head(bins).id, start, end) THEN Head(bins).chunks ELSE <<>>)
         \o OverlappingChunks(Tail(bins), start, end)

\* C4: for a valid interval [start, end], every chunk of every stored bin whose
\* window overlaps the interval is among the chunks Index::query returns, and
\* the chunks returned are those of stored bins: none is of the metadata.
C4_QueryCoverage ==
    (QueryOk /\ csiOut.start <= csiOut.end) =>
        LET bins == reference_sequences[csiOut.rid + 1].bins
        IN /\ \A j \in 1..Len(bins) :
                BinOverlaps(bins[j].id, csiOut.start, csiOut.end) =>
                    \A c \in 1..Len(bins[j].chunks) :
                        \E r \in 1..Len(csiOut.chunks) : csiOut.chunks[r] = bins[j].chunks[c]
           /\ csiOut.chunks = OverlappingChunks(bins, csiOut.start, csiOut.end)

C4_Witness ==
    /\ QueryOk
    /\ csiOut.start < csiOut.end
    /\ reference_sequences[csiOut.rid + 1].metadata # <<>>
    /\ Len(csiOut.chunks) = 3
    /\ Len(csiOut.query_bins) < Len(reference_sequences[csiOut.rid + 1].bins)

\* C5: an interval whose resolved start is greater than its resolved end is
\* rejected: no query of such an interval succeeds.
C5_StartAfterEndRejected ==
    QueryOk => csiOut.start <= csiOut.end

\* the closed 1-based bounds of a range
ClosedStart(sb) ==
    IF sb.kind = "Included" THEN sb.p ELSE IF sb.kind = "Excluded" THEN sb.p + 1 ELSE 1
ClosedEnd(eb) ==
    IF eb.kind = "Included" THEN eb.p
    ELSE IF eb.kind = "Excluded" THEN eb.p - 1
    ELSE 2 ^ (min_shift + 3 * depth) - 1

\* C6: a query whose start or end exceeds max_position(min_shift, depth) fails
\* with InvalidInput and returns no bins; with min_shift = 14 and depth = 5 the
\* query ..=2^31-1 fails and ..=end is accepted for every end <= 536870911.
C6_BeyondMaxPositionFails ==
    (csiOut.called /\ RidValid /\ min_shift > 0) =>
        /\ (\/ ClosedStart(csiOut.sb) > 2 ^ (min_shift + 3 * depth) - 1
            \/ ClosedEnd(csiOut.eb) > 2 ^ (min_shift + 3 * depth) - 1)
              => /\ csiOut.kind = "err"
                 /\ csiOut.error = "InvalidInput"
                 /\ csiOut.query_bins = <<>>
                 /\ csiOut.chunks = <<>>
        /\ (min_shift = 14 /\ depth = 5 /\ csiOut.sb = Unbounded
                /\ csiOut.eb.kind = "Included")
              => IF csiOut.eb.p <= 536870911
                 THEN csiOut.kind = "ok"
                 ELSE csiOut.kind = "err" /\ csiOut.error = "InvalidInput"

C6_Witness ==
    /\ csiOut.called /\ RidValid
    /\ min_shift = 14 /\ depth = 5
    /\ csiOut.sb = Unbounded /\ csiOut.eb = Included(2147483647)
    /\ csiOut.kind = "err" /\ csiOut.error = "InvalidInput"

\* C7: max_position(min_shift, depth) is 2^(min_shift + 3 * depth) - 1 for every
\* min_shift > 0; for min_shift = 14 and depth = 5 it is 536870911. An unbounded
\* end resolves to it.
C7_MaxPosition ==
    min_shift > 0 =>
        /\ max_position(min_shift, depth).kind = "ok"
        /\ max_position(min_shift, depth).value = 2 ^ (min_shift + 3 * depth) - 1
        /\ (min_shift = 14 /\ depth = 5) => max_position(min_shift, depth).value = 536870911
        /\ (QueryOk /\ csiOut.eb = Unbounded)
              => csiOut.end = 2 ^ (min_shift + 3 * depth) - 1

C7_Witness ==
    /\ QueryOk
    /\ min_shift = 14 /\ depth = 5
    /\ csiOut.eb = Unbounded
    /\ csiOut.end = 536870911

\* C8: resolve_interval maps a range to closed 1-based bounds: the start is p for
\* Included(p), p + 1 for Excluded(p) and 1 for Unbounded; the end is p for
\* Included(p), p - 1 for Excluded(p) and max_position for Unbounded; an
\* Excluded end of position 1 is an InvalidInput error.
C8_IntervalNormalisation ==
    (csiOut.called /\ RidValid /\ min_shift > 0) =>
        /\ csiOut.kind = "ok" =>
              /\ csiOut.start = ClosedStart(csiOut.sb)
              /\ csiOut.end = ClosedEnd(csiOut.eb)
              /\ csiOut.end >= 1
        /\ csiOut.eb = Excluded(1) =>
              csiOut.kind = "err" /\ csiOut.error = "InvalidInput"

C8_Witness ==
    /\ csiOut.called /\ RidValid
    /\ csiOut.sb = Excluded(1)
    /\ csiOut.eb = Excluded(1)
    /\ csiOut.kind = "err" /\ csiOut.error = "InvalidInput"

(***************************************************************************)
(* Properties of the record writer.                                        *)
(***************************************************************************)
WriteOkDone == bamOut.called /\ bamOut.kind = "ok"

\* C9: for every record that passes validation write_record emits, little-endian
\* and in this order: block_size u32, ref_id i32, pos i32, l_read_name u8,
\* mapq u8, bin u16, n_cigar_op u16, flag u16, l_seq u32, next_ref_id i32,
\* next_pos i32, tlen i32, the read name with its NUL, each CIGAR op as u32, the
\* packed sequence, the quality bytes and the data; a default record is the 38
\* bytes 22 00 00 00 FF FF FF FF FF FF FF FF 02 FF 48 12 00 00 04 00 00 00 00 00
\* FF FF FF FF FF FF FF FF 00 00 00 00 2A 00.
C9_RecordLayout ==
    WriteOkDone =>
        LET n == Len(record.read_name)
            c == Len(record.cigar)
            sq == Len(record.sequence.buf)
            q == IF record.quality_scores = <<>> THEN record.sequence.base_count
                 ELSE Len(record.quality_scores)
            nameAt == 36
            cigarAt == nameAt + n
            seqAt == cigarAt + 4 * c
            qualAt == seqAt + sq
            dataAt == qualAt + q
        IN /\ Len(buf) = dataAt + Len(record.data)
           /\ \A i \in 1..Len(buf) : buf[i] \in 0..255
           /\ I32At(buf, 5) = record.ref_id
           /\ I32At(buf, 9) = record.pos
           /\ buf[13] = n
           /\ buf[14] = record.mapping_quality
           /\ U16At(buf, 15) = record.bin
           /\ U16At(buf, 17) = c
           /\ U16At(buf, 19) = record.flags
           /\ U32At(buf, 21) = record.sequence.base_count
           /\ I32At(buf, 25) = record.next_ref_id
           /\ I32At(buf, 29) = record.next_pos
           /\ I32At(buf, 33) = record.template_length
           /\ SubSeq(buf, nameAt + 1, nameAt + n) = record.read_name
           /\ buf[nameAt + n] = 0
           /\ \A i \in 1..c : U32At(buf, cigarAt + 4 * (i - 1) + 1) = record.cigar[i]
           /\ SubSeq(buf, seqAt + 1, seqAt + sq) = record.sequence.buf
           /\ record.quality_scores # <<>>
                 => SubSeq(buf, qualAt + 1, qualAt + q) = record.quality_scores
           /\ SubSeq(buf, dataAt + 1, Len(buf)) = record.data
           /\ record = DefaultRecord =>
                 buf = <<34, 0, 0, 0, 255, 255, 255, 255, 255, 255, 255, 255, 2, 255,
                         72, 18, 0, 0, 4, 0, 0, 0, 0, 0, 255, 255, 255, 255,
                         255, 255, 255, 255, 0, 0, 0, 0, 42, 0>>

\* the record and the bytes of test_write_record_with_all_fields
C9_Witness ==
    /\ WriteOkDone
    /\ record = [ref_id |-> 1, pos |-> 8, read_name |-> <<114, 48, 0>>,
                 mapping_quality |-> 13, bin |-> 6765, cigar |-> <<48, 20>>, flags |-> 65,
                 sequence |-> [buf |-> <<18, 72>>, base_count |-> 4],
                 next_ref_id |-> 1, next_pos |-> 21, template_length |-> 144,
                 quality_scores |-> <<45, 35, 43, 50>>, data |-> <<78, 72, 67, 1>>]
    /\ buf = <<53, 0, 0, 0, 1, 0, 0, 0, 8, 0, 0, 0, 3, 13, 109, 26, 2, 0, 65, 0,
               4, 0, 0, 0, 1, 0, 0, 0, 21, 0, 0, 0, 144, 0, 0, 0,
               114, 48, 0, 48, 0, 0, 0, 20, 0, 0, 0, 18, 72, 45, 35, 43, 50,
               78, 72, 67, 1>>

\* C10: for every record written, the block_size in the first 4 bytes is the
\* number of bytes written after them, also when the quality scores are empty
\* and l_seq > 0 (l_seq filler bytes are then written).
C10_BlockSizeIsBytesAfter ==
    WriteOkDone =>
        /\ Len(buf) >= 4
        /\ U32At(buf, 1) = Len(buf) - 4

C10_Witness ==
    /\ WriteOkDone
    /\ record.quality_scores = <<>>
    /\ record.sequence.base_count = 3
    /\ record.cigar # <<>>
    /\ U32At(buf, 1) = Len(buf) - 4

WriteErrDone == bamOut.called /\ bamOut.kind = "err"

\* C11: whenever write_record returns an error caused by the record's content
\* (CIGAR and sequence lengths that differ, a quality length that is neither 0
\* nor the sequence length, a read name of more than 255 bytes with its NUL,
\* more than 65535 CIGAR operations), no byte has been written to the writer.
C11_ErrorWritesNothing == WriteErrDone => buf = <<>>

\* a record is inconsistent when its non-empty CIGAR consumes a read length other
\* than the sequence length, or its quality scores are neither none nor one a base
CigarMismatch(rec) ==
    rec.cigar # <<>> /\ rec.sequence.base_count # CigarReadLen(rec.cigar)
QualityMismatch(rec) ==
    Len(rec.quality_scores) \notin {0, rec.sequence.base_count}

\* C12: write_record returns an error when the CIGAR is not empty and the sequence
\* length differs from the read length of the CIGAR (3M1S with 3 bases), and when
\* the number of quality scores is neither 0 nor the sequence length (4 bases
\* with 3 scores); once both agree, a record whose read name and CIGAR fit their
\* length fields is written.
C12_RejectsInconsistentRecords ==
    bamOut.called =>
        /\ CigarMismatch(record) => bamOut.kind = "err"
        /\ QualityMismatch(record) => bamOut.kind = "err"
        /\ (record.cigar = <<48, 20>> /\ record.sequence.base_count = 3)
              => bamOut.kind = "err"
        /\ (record.sequence.base_count = 4 /\ Len(record.quality_scores) = 3)
              => bamOut.kind = "err"
        /\ (/\ ~CigarMismatch(record)
            /\ ~QualityMismatch(record)
            /\ Len(record.read_name) <= U8Max
            /\ Len(record.cigar) <= U16Max) => bamOut.kind = "ok"

\* the first call of test_write_record_with_all_fields: 3M1S and 3 bases
C12_Witness ==
    /\ WriteErrDone
    /\ record.cigar = <<48, 20>>
    /\ record.sequence.base_count = 3
    /\ Len(record.quality_scores) = 3
    /\ buf = <<>>

\* C13: when the quality scores of a record are empty, write_record writes exactly
\* l_seq bytes of 0xFF in the place of the quality scores (none when l_seq = 0);
\* when they are not, it writes the stored quality bytes and no filler.
C13_MissingQualityFiller ==
    WriteOkDone =>
        LET qualAt == 36 + Len(record.read_name) + 4 * Len(record.cigar)
                         + Len(record.sequence.buf)
            l_seq == U32At(buf, 21)
            q == Len(record.quality_scores)
        IN IF q = 0
           THEN /\ Len(buf) = qualAt + l_seq + Len(record.data)
                /\ \A i \in 1..l_seq : buf[qualAt + i] = 255
           ELSE /\ Len(buf) = qualAt + q + Len(record.data)
                /\ SubSeq(buf, qualAt + 1, qualAt + q) = record.quality_scores

C13_Witness ==
    /\ WriteOkDone
    /\ record.quality_scores = <<>>
    /\ record.sequence.base_count = 4
    /\ record.read_name = <<114, 48, 0>>
    /\ record.cigar = <<>>
    /\ SubSeq(buf, 42, 45) = <<255, 255, 255, 255>>

(***************************************************************************)
(* Properties of the async writer's header.                                *)
(***************************************************************************)
\* write_header and then write_reference_sequences returned, and no call was made
\* since
HeaderWritten ==
    /\ hlog = <<"write_header", "write_reference_sequences">>
    /\ hcall = NoFuture

\* the bytes an entry of the reference sequences takes: l_name, name, NUL, l_ref
RefEntryLen(rs) == 4 + Len(rs.name) + 1 + 4

\* the number of bytes before the i-th entry of the reference sequences
RECURSIVE RefEntriesBefore(_, _)
RefEntriesBefore(refs, i) ==
    IF i <= 1 THEN 0
    ELSE RefEntriesBefore(refs, i - 1) + RefEntryLen(refs[i - 1])

\* C14: after write_header and then write_reference_sequences the output is the
\* magic BAM\1, l_text (u32 LE, the byte length of the header text), the header
\* text, n_ref (u32 LE, the number of reference sequences), then for each
\* reference sequence, in the order of the header, l_name (u32 LE, the length of
\* the name plus 1), the name and one NUL, and l_ref (u32 LE); the reference
\* sequence sq0 of length 8 is 04 00 00 00 73 71 30 00 08 00 00 00.
C14_HeaderLayout ==
    HeaderWritten =>
        LET text == HeaderToString(header)
            refs == header.reference_sequences
            nrefAt == 8 + Len(text)
            refsAt == nrefAt + 4
        IN /\ SubSeq(hbuf, 1, 4) = <<66, 65, 77, 1>>
           /\ U32At(hbuf, 5) = Len(text)
           /\ SubSeq(hbuf, 9, 8 + Len(text)) = text
           /\ U32At(hbuf, nrefAt + 1) = Len(refs)
           /\ Len(hbuf) = refsAt + RefEntriesBefore(refs, Len(refs) + 1)
           /\ \A i \in 1..Len(refs) :
                 LET at == refsAt + RefEntriesBefore(refs, i)
                     n == Len(refs[i].name)
                 IN /\ U32At(hbuf, at + 1) = n + 1
                    /\ SubSeq(hbuf, at + 5, at + 4 + n) = refs[i].name
                    /\ hbuf[at + 5 + n] = 0
                    /\ U32At(hbuf, at + 6 + n) = refs[i].len
           /\ refs = <<[name |-> <<115, 113, 48>>, len |-> 8]>>
                 => SubSeq(hbuf, refsAt + 1, Len(hbuf))
                        = <<4, 0, 0, 0, 115, 113, 48, 0, 8, 0, 0, 0>>

\* the header of the writer's example: sq0 of length 8 and a comment, with a second
\* reference sequence after it
C14_Witness ==
    /\ HeaderWritten
    /\ header.comments # <<>>
    /\ Len(header.reference_sequences) = 2
    /\ header.reference_sequences[1] = [name |-> <<115, 113, 48>>, len |-> 8]
    /\ header.reference_sequences[2] = [name |-> <<99, 104, 114, 77>>, len |-> 70000]
    /\ SubSeq(hbuf, Len(hbuf) - 24, Len(hbuf))
          = <<4, 0, 0, 0, 115, 113, 48, 0, 8, 0, 0, 0,
              5, 0, 0, 0, 99, 104, 114, 77, 0, 112, 17, 1, 0>>

(***************************************************************************)
(* Properties of the BCF record reader.                                    *)
(***************************************************************************)
\* the stream holds a whole record after its first at bytes: both lengths and the
\* bytes they count; the record is well formed when its shared bytes hold a site
CompleteAt(at) ==
    /\ at + 8 <= Len(stream)
    /\ at + 8 + U32At(stream, at + 1) + U32At(stream, at + 5) <= Len(stream)
WellFormedAt(at) == CompleteAt(at) /\ U32At(stream, at + 1) >= SitePrefixLen

LastRead == bcfResults[Len(bcfResults)]

\* the last call returned, and no call was made since
JustReturned ==
    /\ bcfResults # <<>>
    /\ LastRead.kind # "dropped"
    /\ ~bcfCall.active

\* C15: read_record on a stream at a record boundary with a complete record reads
\* l_shared and l_indiv (u32 LE), decodes the site from exactly the next l_shared
\* bytes, stores exactly the following l_indiv bytes as the genotype buffer of
\* the record, with the format count n_fmt and the sample count n_sample of the
\* site, consumes exactly 8 + l_shared + l_indiv bytes and returns
\* l_shared + l_indiv.
C15_ReadsOneRecord ==
    (JustReturned /\ WellFormedAt(LastRead.at)) =>
        LET at == LastRead.at
            l_shared == U32At(stream, at + 1)
            l_indiv == U32At(stream, at + 5)
            shared == SubSeq(stream, at + 9, at + 8 + l_shared)
        IN /\ LastRead.kind = "ok"
           /\ LastRead.n = l_shared + l_indiv
           /\ bcfPos = at + 8 + l_shared + l_indiv
           /\ bcfBuf = shared
           /\ bcfRecord.site.chromosome_id = I32At(shared, 1)
           /\ bcfRecord.site.position = I32At(shared, 5) + 1
           /\ bcfRecord.site.rlen = I32At(shared, 9)
           /\ bcfRecord.site.quality_score = SubSeq(shared, 13, 16)
           /\ bcfRecord.site.n_info + 65536 * bcfRecord.site.n_allele = U32At(shared, 17)
           /\ bcfRecord.site.fields = SubSeq(shared, 25, l_shared)
           /\ bcfRecord.genotypes.buf
                 = SubSeq(stream, at + 8 + l_shared + 1, at + 8 + l_shared + l_indiv)
           /\ bcfRecord.genotypes.sample_count
                 + 16777216 * bcfRecord.genotypes.format_count = U32At(shared, 21)
           /\ bcfRecord.genotypes.sample_count < 16777216
           /\ (l_shared = 31 /\ l_indiv = 5) =>
                 /\ LastRead.n = 36
                 /\ bcfRecord.site.chromosome_id = 1
                 /\ bcfRecord.site.position = 101
                 /\ bcfRecord.genotypes =
                        [buf |-> <<17, 1, 17, 0, 1>>, format_count |-> 1, sample_count |-> 2]

\* the second record of a stream of two, read into the record the first was read into
C15_Witness ==
    /\ stream = RecordB \o RecordA
    /\ Len(bcfResults) = 2
    /\ LastRead = [kind |-> "ok", n |-> 36, error |-> "none", at |-> 38, changed |-> TRUE]
    /\ bcfPos = 82
    /\ bcfRecord.genotypes.sample_count = 2

\* C16: a partial record is an error, not the end of the data: when the stream ends
\* after at least one byte of a record (inside l_shared, inside l_indiv, inside
\* the shared bytes or inside the genotype bytes), read_record returns an error
\* and not Ok(0).
C16_PartialRecordIsError ==
    \A i \in 1..Len(bcfResults) :
        (/\ bcfResults[i].kind # "dropped"
         /\ bcfResults[i].at < Len(stream) /\ ~CompleteAt(bcfResults[i].at))
            => bcfResults[i].kind = "err"

\* the number of records of a stream of whole, well-formed records from its first
\* at bytes on, and -1 for any other stream
RECURSIVE RecordsFrom(_)
RecordsFrom(at) ==
    IF at = Len(stream) THEN 0
    ELSE IF ~WellFormedAt(at) THEN -1
    ELSE LET rest == RecordsFrom(at + 8 + U32At(stream, at + 1) + U32At(stream, at + 5))
         IN IF rest < 0 THEN -1 ELSE rest + 1

\* C17: read_record returns Ok(0) when no bytes remain at a record boundary and
\* leaves the caller's record as it was; it returns Ok(0) in that case only; on
\* a stream of k complete records the first k calls return a positive count and
\* the (k+1)-th returns Ok(0).
C17_EndOfStream ==
    \A i \in 1..Len(bcfResults) :
        LET r == bcfResults[i]
        IN r.kind # "dropped" =>
           /\ r.at = Len(stream) => (r.kind = "ok" /\ r.n = 0 /\ ~r.changed)
           /\ (r.kind = "ok" /\ r.n = 0) => r.at = Len(stream)
           /\ RecordsFrom(0) >= 0 =>
                 /\ i <= RecordsFrom(0) => (r.kind = "ok" /\ r.n > 0)
                 /\ i = RecordsFrom(0) + 1 => (r.kind = "ok" /\ r.n = 0)

(***************************************************************************)
(* Properties of the CRAM container reader.                                *)
(***************************************************************************)
\* the number of whole blocks, max at most, that b holds from its first at bytes on
RECURSIVE BlocksIn(_, _, _)
BlocksIn(b, at, max) ==
    IF max = 0 \/ read_block(b, at).kind = "err" THEN 0
    ELSE 1 + BlocksIn(b, read_block(b, at).pos, max - 1)

\* the number of bytes of b before its j-th block
RECURSIVE BlockStart(_, _)
BlockStart(b, j) == IF j = 1 THEN 0 ELSE read_block(b, BlockStart(b, j - 1)).pos

\* the call that returned r read the container of header h (as read from where the
\* call started) as claimed, when the stream holds the whole body
ReadAsClaimed(r, h) ==
    (h.kind = "ok" /\ h.pos + h.value.len <= Len(cramStream)) =>
        LET body == SubSeq(cramStream, h.pos + 1, h.pos + h.value.len)
            n == h.value.block_count
        IN /\ r.left = h.pos + h.value.len
           /\ IF BlocksIn(body, 0, n) = n
              THEN /\ r.kind = "ok"
                   /\ r.container.header = h.value
                   /\ Len(r.container.blocks) = n
                   /\ \A j \in 1..n :
                         r.container.blocks[j] = read_block(body, BlockStart(body, j)).value
                   /\ (n >= 1 /\ r.at = 0) =>
                         r.container.blocks[1] =
                             [compression_method |-> 0, content_type |-> 1,
                              content_id |-> 0, uncompressed_len |-> 2,
                              data |-> <<1, 2>>, crc32 |-> <<170, 187, 204, 221>>]
              ELSE r.kind = "err"

\* C18: read_container reads the container header, consumes exactly header.len()
\* bytes of body (the reader is then at the next container, however many bytes
\* the blocks take) and returns a container of the compression header block and
\* block_count - 1 slice blocks, in the order of the stream; it fails when the
\* body does not hold that many whole blocks.
C18_ReadContainer ==
    \A i \in 1..Len(cramResults) :
        cramResults[i].kind # "dropped" =>
            ReadAsClaimed(cramResults[i], read_header(cramStream, cramResults[i].at))

\* a container of 3 blocks and 3 more bytes in its body, and the container after it
C18_Witness ==
    /\ Len(cramResults) = 2
    /\ cramResults[1].kind = "ok" /\ cramResults[2].kind = "ok"
    /\ Len(cramResults[1].container.blocks) = 3
    /\ cramResults[1].container.blocks[3].data = <<65, 67, 71>>
    /\ cramResults[1].container.header.len = 36
    /\ cramResults[1].container.header.landmarks = <<11, 21>>
    /\ cramResults[2].at = cramResults[1].left
    /\ Len(cramResults[2].container.blocks) = 1
    /\ cramPos = Len(cramStream)

(***************************************************************************)
(* Properties of WithPositions.                                            *)
(***************************************************************************)
ScoreKinds == {"Scores", "QualityScore"}

\* the positions after the j-th call of next
PositionsAfter(j) ==
    IF j < Len(yields) THEN yields[j + 1].before
    ELSE <<reference_position, read_position>>

\* the features taken by the calls of next that returned
TakenAndReturned ==
    {i \in 1..iter.taken : \A j \in 1..Len(yields) :
        ~(yields[j].kind = "panic" /\ yields[j].idx = i)}

\* the calls of next that yielded a feature
Yielding == {j \in 1..Len(yields) : yields[j].kind = "some"}

\* the bases of the read alone that the features before the i-th consume
RECURSIVE ReadOnlyBefore(_)
ReadOnlyBefore(i) ==
    IF i <= 1 THEN 0
    ELSE ReadOnlyBefore(i - 1) +
         (CASE iter.items[i - 1].kind \in {"Insertion", "SoftClip"} -> iter.items[i - 1].len
            [] iter.items[i - 1].kind = "InsertBase" -> 1
            [] OTHER -> 0)

\* the length of the reference alone that the features before the i-th consume
RECURSIVE ReferenceOnlyBefore(_)
ReferenceOnlyBefore(i) ==
    IF i <= 1 THEN 0
    ELSE ReferenceOnlyBefore(i - 1) +
         (IF iter.items[i - 1].kind \in {"Deletion", "ReferenceSkip"}
          THEN iter.items[i - 1].len ELSE 0)

\* C19: every feature other than scores that a returning call of next takes is
\* yielded, in the order of the input, with the read position equal to its own
\* position and the reference position equal to the alignment start + (its
\* position - 1) - the bases earlier insertions, inserted bases and soft clips
\* consume + the length earlier deletions and reference skips consume; bases,
\* a read base and a substitution then advance both positions by their length,
\* a padding and a hard clip advance neither.
C19_YieldedPositions ==
    /\ \A i \in TakenAndReturned :
           iter.items[i].kind \notin ScoreKinds => \E j \in Yielding : yields[j].idx = i
    /\ \A j, k \in Yielding : j < k => yields[j].idx < yields[k].idx
    /\ \A j \in Yielding :
           LET i == yields[j].idx
               f == iter.items[i]
           IN /\ yields[j].positions[2] = f.position
              /\ yields[j].positions[1] =
                     alignment_start + (f.position - 1) - ReadOnlyBefore(i)
                         + ReferenceOnlyBefore(i)
              /\ f.kind = "Bases" =>
                     PositionsAfter(j) = <<yields[j].positions[1] + f.len,
                                           yields[j].positions[2] + f.len>>
              /\ f.kind \in {"ReadBase", "Substitution"} =>
                     PositionsAfter(j) = <<yields[j].positions[1] + 1,
                                           yields[j].positions[2] + 1>>
              /\ f.kind \in {"Padding", "HardClip"} =>
                     PositionsAfter(j) = yields[j].positions

\* an insertion at 1, a deletion at 3 and bases at 5 of a read aligned at 7
C19_Witness ==
    /\ alignment_start = 7
    /\ Len(iter.items) = 3
    /\ iter.items[1] = [kind |-> "Insertion", position |-> 1, len |-> 2]
    /\ iter.items[2] = [kind |-> "Deletion", position |-> 3, len |-> 2]
    /\ iter.items[3] = [kind |-> "Bases", position |-> 5, len |-> 2]
    /\ Len(yields) = 3
    /\ yields[3].kind = "some" /\ yields[3].positions = <<11, 5>>
    /\ reference_position = 13 /\ read_position = 7

\* C20: next never yields a Scores or QualityScore feature, and the ones it passes
\* over move neither position; every other feature a returning call takes is
\* yielded exactly once, in the order of the input; a call returns None exactly
\* when the underlying iterator has no feature left but scores. From
\* [Bases(1, AC), Scores(1, ..)] and alignment start 1 next yields ((1, 1), Bases)
\* and then None.
C20_ScoresSkipped ==
    /\ \A j \in Yielding : iter.items[yields[j].idx].kind \notin ScoreKinds
    /\ \A j \in 1..Len(yields) :
           LET y == yields[j]
               rest == {i \in (y.from + 1)..Len(iter.items) :
                           iter.items[i].kind \notin ScoreKinds}
           IN /\ y.kind = "none" =>
                     /\ PositionsAfter(j) = y.before
                     /\ rest = {} /\ iter.exhausted /\ iter.taken = Len(iter.items)
              /\ y.kind = "some" =>
                     /\ y.idx \in rest /\ \A i \in rest : y.idx <= i
                     /\ y.positions[1] - y.before[1] = iter.items[y.idx].position - y.before[2]
                     /\ y.positions[2] - y.before[2] = iter.items[y.idx].position - y.before[2]
              /\ (j = Len(yields) /\ iter.exhausted) => y.kind = "none"
    /\ \A i \in TakenAndReturned :
           iter.items[i].kind \notin ScoreKinds =>
               Cardinality({j \in Yielding : yields[j].idx = i}) = 1
    /\ \A j, k \in Yielding : j < k => yields[j].idx < yields[k].idx
    /\ (/\ alignment_start = 1
        /\ iter.items = <<[kind |-> "Bases", position |-> 1, len |-> 2],
                          [kind |-> "Scores", position |-> 1, len |-> 2]>>
        /\ iter.exhausted) =>
           /\ Len(yields) = 2
           /\ yields[1].kind = "some" /\ yields[1].positions = <<1, 1>>
           /\ yields[1].idx = 1
           /\ yields[2].kind = "none"

\* the features [Bases(1, AC), Scores(1, ..)] from alignment start 1, after the
\* second call of next
C20_Witness ==
    /\ alignment_start = 1
    /\ iter.items = <<[kind |-> "Bases", position |-> 1, len |-> 2],
                      [kind |-> "Scores", position |-> 1, len |-> 2]>>
    /\ iter.exhausted
    /\ Len(yields) = 2
    /\ yields[2].kind = "none"
    /\ reference_position = 3 /\ read_position = 3

\* the positions of the features the iterator holds never decrease
NonDecreasingPositions ==
    \A i \in 1..(Len(iter.items) - 1) :
        iter.items[i].position <= iter.items[i + 1].position

\* C21: over a feature list whose positions never decrease, no call of next
\* underflows or panics (the position of each feature is at least the read
\* position), and the reference and read positions that successive calls yield
\* never decrease.
C21_NeverPanics ==
    NonDecreasingPositions =>
        /\ \A j \in 1..Len(yields) : yields[j].kind # "panic"
        /\ \A j, k \in Yielding :
               j < k => /\ yields[j].positions[1] <= yields[k].positions[1]
                        /\ yields[j].positions[2] <= yields[k].positions[2]

(***************************************************************************)
(* Properties of the slice header.                                         *)
(***************************************************************************)
\* C22: alignment_end returns the last position the slice covers, alignment_start
\* + alignment_span - 1, so that alignment_start..alignment_end holds exactly
\* alignment_span positions, and None when the header has no alignment start.
C22_AlignmentEnd ==
    slice_end.called =>
        IF ~slice_header.alignment_start.some THEN slice_end.value = NoPosition
        ELSE /\ slice_end.value.some
             /\ slice_end.value.position =
                    slice_header.alignment_start.position
                        + slice_header.alignment_span - 1
             /\ Cardinality(slice_header.alignment_start.position
                                ..slice_end.value.position)
                    = slice_header.alignment_span

(***************************************************************************)
(* Further properties of the CSI reference sequence.                       *)
(***************************************************************************)
\* a is b with some of its elements left out
RECURSIVE IsSubsequence(_, _)
IsSubsequence(a, b) ==
    IF a = <<>> THEN TRUE
    ELSE IF b = <<>> THEN FALSE
    ELSE IF Head(a) = Head(b) THEN IsSubsequence(Tail(a), Tail(b))
    ELSE IsSubsequence(a, Tail(b))

\* C23: ReferenceSequence::query never panics: with min_shift > 0 and
\* min_shift + 3 * depth < 32, whatever the ids of the stored bins and the
\* interval, it returns an error or a list of bins, and the bins returned are a
\* subsequence of the stored bins in their stored order.
C23_QueryNeverPanics ==
    (/\ csiOut.called
     /\ csiOut.rid + 1 \in 1..Len(reference_sequences)
     /\ min_shift > 0 /\ min_shift + 3 * depth < 32) =>
        /\ csiOut.kind \in {"ok", "err"}
        /\ csiOut.kind = "ok" =>
               IsSubsequence(csiOut.query_bins,
                             reference_sequences[csiOut.rid + 1].bins)

\* the stored bin with the greatest id: the last leaf-level bin whenever a
\* leaf-level bin is stored, whatever the depth of the tree
LastLinearBin(bins) ==
    CHOOSE b \in {bins[i] : i \in 1..Len(bins)} :
        \A i \in 1..Len(bins) : bins[i].id <= b.id

\* C24: first_record_in_last_linear_bin_start_position returns the loffset of the
\* last linear bin of the reference sequence, in whatever order the bins are
\* stored, and None when the reference sequence has no bins; the bins
\* [(0, loffset 8), (1, loffset 13)] give 13.
C24_LastLinearBin ==
    lin_out.called =>
        /\ lin_reference_sequence.bins = <<>> => lin_out.value = <<>>
        /\ lin_reference_sequence.bins # <<>> =>
               lin_out.value = <<LastLinearBin(lin_reference_sequence.bins).loffset>>
        /\ lin_reference_sequence.bins = <<Bin(0, 8, <<>>), Bin(1, 13, <<>>)>> =>
               lin_out.value = <<13>>

(***************************************************************************)
(* Properties of the tag encoding map writer.                              *)
(***************************************************************************)
\* the bytes the last call appended to the writer
TagWritten == SubSeq(tag_writer, Len(tag_out.before) + 1, Len(tag_writer))

\* the entries from the i-th on are read back from position at of s, each as its
\* key and its encoding (codec id, length of the arguments, arguments), and
\* nothing is left after them
RECURSIVE EntriesReadBack(_, _, _)
EntriesReadBack(s, at, i) ==
    IF i > Len(tag_encoding_map) THEN at = Len(s)
    ELSE LET key == read_itf8(s, at)
             id == IF key.kind = "ok" THEN read_itf8(s, key.pos) ELSE key
             n == IF id.kind = "ok" THEN read_itf8(s, id.pos) ELSE id
             e == tag_encoding_map[i].encoding
         IN /\ n.kind = "ok"
            /\ key.value = tag_encoding_map[i].key
            /\ id.value = (CASE e.kind = "External" -> 1
                             [] e.kind = "ByteArrayStop" -> 5
                             [] e.kind = "Beta" -> 6)
            /\ n.pos + n.value <= Len(s)
            /\ SubSeq(s, n.pos + 1, n.pos + n.value) =
                   (CASE e.kind = "External" -> write_itf8(e.a)
                      [] e.kind = "ByteArrayStop" -> <<e.a>> \o write_itf8(e.b)
                      [] e.kind = "Beta" -> write_itf8(e.a) \o write_itf8(e.b))
            /\ EntriesReadBack(s, n.pos + n.value, i + 1)

\* C25: what write_tag_encoding_map writes begins with an itf8 that is the exact
\* number of the bytes written after it, then an itf8 that is the number of
\* entries, then every entry as its key (itf8) and its encoding; when the
\* encoding of an entry fails, the writer has received nothing.
C25_TagEncodingMapFramed ==
    tag_out.called =>
        /\ Len(tag_writer) >= Len(tag_out.before)
        /\ SubSeq(tag_writer, 1, Len(tag_out.before)) = tag_out.before
        /\ tag_out.kind = "err" <=>
               \E i \in 1..Len(tag_encoding_map) : ~tag_encoding_map[i].encoding.fits
        /\ tag_out.kind = "err" => TagWritten = <<>>
        /\ tag_out.kind = "ok" =>
               LET data_len == read_itf8(TagWritten, 0)
                   map_len == IF data_len.kind = "ok"
                              THEN read_itf8(TagWritten, data_len.pos) ELSE data_len
               IN /\ map_len.kind = "ok"
                  /\ data_len.value = Len(TagWritten) - data_len.pos
                  /\ map_len.value = Len(tag_encoding_map)
                  /\ EntriesReadBack(TagWritten, map_len.pos, 1)

\* a map of two entries written after an earlier, empty map: 2 bytes of lengths,
\* 4 bytes of each key, 4 bytes of External(300) and of ByteArrayStop(0, 2)
C25_Witness ==
    /\ tag_out.called
    /\ tag_out.kind = "ok"
    /\ tag_out.before = <<1, 0>>
    /\ Len(tag_encoding_map) = 2
    /\ tag_encoding_map[1].encoding = External(300)
    /\ tag_encoding_map[2].encoding = ByteArrayStop(0, 2)
    /\ Len(tag_writer) = 2 + 1 + 1 + (4 + 4) + (4 + 4)
    /\ tag_writer[3] = 17

(***************************************************************************)
(* Properties of the SAM CIGAR writer.                                     *)
(***************************************************************************)
\* the kind characters of the SAM format
CigarKindOf ==
    [c \in {77, 73, 68, 78, 83, 72, 80, 61, 88} |->
        CASE c = 77 -> "Match" [] c = 73 -> "Insertion" [] c = 68 -> "Deletion"
          [] c = 78 -> "Skip" [] c = 83 -> "SoftClip" [] c = 72 -> "HardClip"
          [] c = 80 -> "Pad" [] c = 61 -> "SequenceMatch" [] c = 88 -> "SequenceMismatch"]

IsDigit(c) == c >= 48 /\ c <= 57

\* the text s read as operations: decimal digits without a leading zero, then
\* one kind character; <<"bad">> when s is no such text
RECURSIVE ReadCigarText(_, _, _)
ReadCigarText(s, i, n) ==
    IF i > Len(s) THEN IF n = 0 THEN <<>> ELSE <<"bad">>
    ELSE IF IsDigit(s[i])
         THEN IF n = 0 /\ s[i] = 48 THEN <<"bad">>
              ELSE ReadCigarText(s, i + 1, 10 * n + (s[i] - 48))
    ELSE IF n = 0 \/ s[i] \notin DOMAIN CigarKindOf THEN <<"bad">>
    ELSE <<[kind |-> CigarKindOf[s[i]], len |-> n]>> \o ReadCigarText(s, i + 1, 0)

\* C26: write_cigar writes the single byte '*' if and only if the CIGAR is empty;
\* otherwise it writes, for each operation in order, its decimal length and one
\* kind character (M, I, D, N, S, H, P, =, X, a different one for each kind), so
\* the text reads back as the CIGAR; [Match 8] is written as "8M".
C26_CigarText ==
    sam_cigar_out.called =>
        /\ sam_cigar_out.buf = <<42>> <=> sam_cigar = <<>>
        /\ sam_cigar # <<>> => ReadCigarText(sam_cigar_out.buf, 1, 0) = sam_cigar
        /\ sam_cigar = <<[kind |-> "Match", len |-> 8]>> => sam_cigar_out.buf = <<56, 77>>

\* 150= followed by 10M, written as "150=10M"
C26_Witness ==
    /\ sam_cigar_out.called
    /\ sam_cigar = <<[kind |-> "SequenceMatch", len |-> 150], [kind |-> "Match", len |-> 10]>>
    /\ sam_cigar_out.buf = <<49, 53, 48, 61, 49, 48, 77>>

(***************************************************************************)
(* Properties of the SAM data field value writer.                          *)
(***************************************************************************)
\* the digits s[i..] read as a number, from the value n of the digits before
RECURSIVE DigitsValue(_, _, _)
DigitsValue(s, i, n) ==
    IF i > Len(s) THEN n ELSE DigitsValue(s, i + 1, 10 * n + (s[i] - 48))

\* s is the decimal text of n: digits without a leading zero, after a '-' when n
\* is negative
IsDecimalTextOf(s, n) ==
    LET digits == IF s # <<>> /\ s[1] = 45 THEN Tail(s) ELSE s
    IN /\ digits # <<>>
       /\ \A i \in 1..Len(digits) : IsDigit(digits[i])
       /\ Len(digits) > 1 => digits[1] # 48
       /\ (s[1] = 45) <=> (n < 0)
       /\ DigitsValue(digits, 1, 0) = (IF n < 0 THEN 0 - n ELSE n)

\* the texts between the commas of s
RECURSIVE SplitAtCommas(_, _, _)
SplitAtCommas(s, i, field) ==
    IF i > Len(s) THEN <<field>>
    ELSE IF s[i] = 44 THEN <<field>> \o SplitAtCommas(s, i + 1, <<>>)
    ELSE SplitAtCommas(s, i + 1, Append(field, s[i]))

IntegerTypes == {"Int8", "UInt8", "Int16", "UInt16", "Int32", "UInt32"}

\* the subtype character of each integer array type
SubtypeCharOf ==
    [t \in {"Int8Array", "UInt8Array", "Int16Array", "UInt16Array", "Int32Array",
            "UInt32Array"} |->
        CASE t = "Int8Array" -> 99 [] t = "UInt8Array" -> 67 [] t = "Int16Array" -> 115
          [] t = "UInt16Array" -> 83 [] t = "Int32Array" -> 105 [] t = "UInt32Array" -> 73]

\* C27: write_value writes an integer value as its decimal text, and an integer
\* array as the character of its subtype (c, C, s, S, i, I) followed, for each
\* element in order, by ',' and the decimal text of the element: an array of n
\* elements has exactly n commas, an empty array is the subtype character alone;
\* Int8Array [1, -2] is "c,1,-2" and UInt32Array [144, 223] is "I,144,223".
C27_ValueText ==
    sam_value_out.called =>
        LET text == sam_value_out.buf
            fields == SplitAtCommas(text, 1, <<>>)
        IN /\ sam_value.type \in IntegerTypes => IsDecimalTextOf(text, sam_value.n)
           /\ sam_value.type \in DOMAIN SubtypeCharOf =>
                  /\ fields[1] = <<SubtypeCharOf[sam_value.type]>>
                  /\ Len(fields) - 1 = Len(sam_value.values)
                  /\ \A i \in 1..Len(sam_value.values) :
                         IsDecimalTextOf(fields[i + 1], sam_value.values[i])
                  /\ sam_value.values = <<>> => text = <<SubtypeCharOf[sam_value.type]>>
           /\ sam_value = SamValue("Int8Array", 0, <<>>, <<1, -2>>) =>
                  text = <<99, 44, 49, 44, 45, 50>>
           /\ sam_value = SamValue("UInt32Array", 0, <<>>, <<144, 223>>) =>
                  text = <<73, 44, 49, 52, 52, 44, 50, 50, 51>>

\* UInt32Array [144, 223], written as "I,144,223"
C27_Witness ==
    /\ sam_value_out.called
    /\ sam_value = SamValue("UInt32Array", 0, <<>>, <<144, 223>>)
    /\ sam_value_out.buf = <<73, 44, 49, 52, 52, 44, 50, 50, 51>>

====
